---- MODULE Spec2Model ----
(***************************************************************************)
(* Model of the Detection & Automation Engine of pip-reroller              *)
(* (src/app/app.py, class PipRerollerApp).                                 *)
(*                                                                         *)
(* Threads of the program and how they appear here:                        *)
(*   - the hotkey listener thread runs on_key_press, hence                 *)
(*     start_running_async (a sequence of steps, start_pc) and             *)
(*     stop_running_async;                                                 *)
(*   - the Tk main thread runs the settings handlers and _on_closing       *)
(*     (closing_pc);                                                       *)
(*   - each reroll_loop thread (the Automation Sequencer) is a process     *)
(*     with position rl_pc[t];                                             *)
(*   - each ImageProcessor thread (the Detection Poller) is a process      *)
(*     with position ip_pc[t].  app/processor.py is not part of the        *)
(*     available source: the Poller is modelled from spec.md section 4.3.  *)
(*                                                                         *)
(* Ranks are represented by their ordinal (RANK_ORDER): 0 is "F", the      *)
(* lowest rank, and NumRanks-1 is "SS", the highest.                       *)
(***************************************************************************)
EXTENDS Integers, FiniteSets, Sequences, TLC

\* ------------------------------------------------------------ bounds
\* Number of ranks of the rank table that are modelled.
NumRanks == 2
\* Largest number of objects a detection cycle reports.
MaxObjs == 2
\* Thread objects of each kind that may exist at once.
MaxThreads == 2
\* Largest value typed in the stop-at-SS entry.
MaxStopAt == 1
\* Largest value typed in the minimum-objects entry.
MaxMinObjects == 2

\* Largest number of scheduled callbacks the Tk main thread has not yet run.
MaxQueue == 1

\* Largest coordinate and largest side of the rectangles of the plane.
MaxCoord == 3
MaxSide == 2
\* Largest x of the unit squares of the row, and the longest list of them.
MaxRowCoord == 4
MaxRects == 3
\* Largest max_distance.
MaxDist == 2

\* Largest channel value of a pixel or of a reference color, largest
\* tolerance and longest frame (in pixels) given to rank_mask.
MaxChannel == 2
MaxMaskTol == 2
MaxPixels == 2

\* Largest value typed in the entries of the delays and of the object tolerance.
MaxTune == 1

\* Largest coordinate of the grid of unit squares that triples are taken from.
MaxGridCoord == 2
\* log records appended in one behavior
MaxRecords == 3
\* ------------------------------------------------------------ rank table
Ranks == 0 .. (NumRanks - 1)
\* RANK_ORDER maps a rank to its ordinal; ranks are named by ordinal here.
RANK_ORDER == [r \in Ranks |-> r]
F == 0
SS == NumRanks - 1

Threads == 1 .. MaxThreads
None == 0

RECURSIVE SumOver(_, _)
SumOver(f, S) ==
    IF S = {} THEN 0
    ELSE LET x == CHOOSE y \in S : TRUE
         IN f[x] + SumOver(f, S \ {x})

\* The object lists a detection cycle can produce: the classifier's output is
\* ordered by descending rank ordinal.  An object is represented by its rank.
Detections ==
    {o \in UNION {[1 .. n -> Ranks] : n \in 0 .. MaxObjs} :
        \A i \in 1 .. (Len(o) - 1) : RANK_ORDER[o[i]] >= RANK_ORDER[o[i + 1]]}
\* The RankCountSnapshot of an object list: fully populated, zero for absent ranks.
CountByRank(objs) == [r \in Ranks |-> Cardinality({i \in 1 .. Len(objs) : objs[i] = r})]
ZeroCounts == [r \in Ranks |-> 0]

VARIABLES
    game_area,              \* TRUE iff self.game_area is not None
    chisel_button_pos,      \* TRUE iff self.chisel_button_pos is not None
    buy_button_pos,         \* TRUE iff self.buy_button_pos is not None
    game_window_title,      \* "" or a title
    running,                \* self.running
    status_var,             \* "Running" | "Suspended"
    message_var,            \* the message shown to the operator
    min_quality,            \* self.min_quality (a rank)
    min_objects,            \* self.min_objects
    stop_at_ss,             \* self.stop_at_ss
    stop_reroll_event,      \* the CancellationSignal (threading.Event)
    image_processor_thread, \* None or the Poller thread object
    reroll_loop_thread,     \* None or the Sequencer thread object
    ip_pc,                  \* position of each Poller thread
    ip_stop_event,          \* each Poller's own stop signal
    current_rank_counts,    \* the published RankCountSnapshot
    detected_objs,          \* the cached detected-object list (the rank of each object)
    rl_pc,                  \* position of each Sequencer thread
    rl_min_rank_idx,        \* reroll_loop local min_rank_idx
    rl_filtered_count,      \* reroll_loop local filtered_count
    rl_timer,               \* state of the time.sleep a Sequencer is in
    rl_left_at,             \* history: the checkpoint at which a Sequencer left its loop
    stopped_from_condition, \* the flag last reported to the presence collaborator
    start_pc,               \* position of start_running_async
    closing_pc,             \* position of _on_closing
    stale,                  \* history: the signal is a leftover of the previous run
    tolerance,              \* self.tolerance
    object_tolerance,       \* self.object_tolerance
    click_delay_ms,         \* self.click_delay_ms
    post_reroll_delay_ms,   \* self.post_reroll_delay_ms
    image_poll_delay_ms,    \* self.image_poll_delay_ms
    preview_active,         \* self.preview_active
    after_queue,            \* callbacks scheduled with root.after(0, ...), oldest first
    last_detected_objs,     \* self.last_detected_objs
    rank_counts,            \* self.rank_counts
    written_by,             \* history: whose detection last_detected_objs holds
    log_pc,                 \* position of the Sequencer inside lines 1160-1181
    log_objs,               \* reroll_loop local detected_objs (line 1160)
    log_counts,             \* the counts passed to log_event (line 1165)
    m_pc,                   \* merge_rectangles: what has been computed
    m_rects,                \* merge_rectangles argument rects
    m_dist,                 \* merge_rectangles argument max_distance
    m_out,                  \* the result of merge_rectangles(rects, max_distance)
    m_again,                \* the result of a further call
    k_pc,                   \* rank_mask: what has been computed
    k_frame,                \* rank_mask argument frame (a row of BGR pixels)
    k_color,                \* rank_mask argument color_bgr
    k_tol,                  \* the two tolerances rank_mask is called with
    k_mask,                 \* the two masks returned
    c_pc,                   \* detect_and_classify: position of the call
    c_rects,                \* the bounding rectangles found for each entry of RANKS (line 983)
    c_idx,                  \* the entry of RANKS the loop of line 977 is at
    c_detected,             \* detect_and_classify local detected, before the sort
    c_result,               \* the list detect_and_classify returns
    preview_thread,         \* self.preview_thread: None or the thread object
    pv_pc,                  \* position of each preview_loop thread
    log_buffer,             \* self.log_buffer (records are numbered as appended)
    log_next,               \* history: the number of the next record
    log_files,              \* the dump files written, each the list of its lines
    dump_pc,                \* position of dump_logs
    dump_idx                \* dump_logs: index of the list iterator of line 416

appVars == <<game_area, chisel_button_pos, buy_button_pos, game_window_title,
          running, status_var, message_var, min_quality, min_objects,
          stop_at_ss, stop_reroll_event, image_processor_thread,
          reroll_loop_thread, ip_pc, ip_stop_event, current_rank_counts,
          detected_objs, rl_pc, rl_min_rank_idx, rl_filtered_count, rl_timer, rl_left_at,
          stopped_from_condition, start_pc, closing_pc, stale>>

tuneVars == <<tolerance, object_tolerance, click_delay_ms, post_reroll_delay_ms,
              image_poll_delay_ms>>
viewVars == <<preview_active, after_queue, last_detected_objs, rank_counts,
              written_by, log_pc, log_objs, log_counts>>
mergeVars == <<m_pc, m_rects, m_dist, m_out, m_again>>
maskVars == <<k_pc, k_frame, k_color, k_tol, k_mask>>
classVars == <<c_pc, c_rects, c_idx, c_detected, c_result>>
\* Everything outside the run-control state.
previewVars == <<preview_thread, pv_pc>>
logVars == <<log_buffer, log_next, log_files, dump_pc, dump_idx>>
extVars == <<tuneVars, viewVars, mergeVars, maskVars, classVars, previewVars, logVars>>
vars == <<appVars, extVars>>

cfgVars == <<game_area, chisel_button_pos, buy_button_pos, game_window_title>>
setVars == <<min_quality, min_objects, stop_at_ss>>
runVars == <<running, status_var>>
snapVars == <<current_rank_counts, detected_objs>>
ipVars == <<image_processor_thread, ip_pc, ip_stop_event, snapVars>>
rlLocals == <<rl_min_rank_idx, rl_filtered_count>>
rlVars == <<reroll_loop_thread, rl_pc, rl_min_rank_idx,
            rl_filtered_count, rl_timer, rl_left_at, stopped_from_condition>>
evVars == <<stop_reroll_event, stale>>

\* ------------------------------------------------------------ __init__
\* __init__, lines 150-156: the tuning settings
TuneInit ==
    /\ tolerance = 10
    /\ object_tolerance = 10
    /\ click_delay_ms = 50
    /\ post_reroll_delay_ms = 500
    /\ image_poll_delay_ms = 10

\* __init__, lines 147, 162 and 171: no preview, zero counts, no cached objects
ViewInit ==
    /\ preview_active = FALSE
    /\ after_queue = <<>>
    /\ last_detected_objs = <<>>
    /\ rank_counts = ZeroCounts
    /\ written_by = "init"
    /\ log_pc = "idle"
    /\ log_objs = <<>>
    /\ log_counts = ZeroCounts

\* No call of merge_rectangles is under way.
MergeIdle ==
    /\ m_pc = "idle"
    /\ m_rects = <<>>
    /\ m_dist = 0
    /\ m_out = <<>>
    /\ m_again = <<>>

\* No call of detect_and_classify is under way.
ClassIdle ==
    /\ c_pc = "idle"
    /\ c_rects = <<>>
    /\ c_idx = 0
    /\ c_detected = <<>>
    /\ c_result = <<>>

\* __init__: no preview thread has been created
PreviewIdle ==
    /\ preview_thread = None
    /\ pv_pc = [t \in Threads |-> "unborn"]

\* __init__: the log buffer is empty; no dump file has been written
LogIdle ==
    /\ log_buffer = <<>>
    /\ log_next = 1
    /\ log_files = <<>>
    /\ dump_pc = "idle"
    /\ dump_idx = 0

\* No call of rank_mask is under way.
MaskIdle ==
    /\ k_pc = "idle"
    /\ k_frame = <<>>
    /\ k_color = <<0, 0, 0>>
    /\ k_tol = <<0, 0>>
    /\ k_mask = <<>>

\* __init__: the run-control state
AppInit ==
    /\ game_area = FALSE
    /\ chisel_button_pos = FALSE
    /\ buy_button_pos = FALSE
    /\ game_window_title = "Roblox"
    /\ running = FALSE
    /\ status_var = "Suspended"
    /\ message_var = ""
    /\ min_quality = F
    /\ min_objects = 1
    /\ stop_at_ss = 0
    /\ stop_reroll_event = FALSE
    /\ image_processor_thread = None
    /\ reroll_loop_thread = None
    /\ ip_pc = [t \in Threads |-> "unborn"]
    /\ ip_stop_event = [t \in Threads |-> FALSE]
    /\ current_rank_counts = ZeroCounts
    /\ detected_objs = <<>>
    /\ rl_pc = [t \in Threads |-> "unborn"]
    /\ rl_min_rank_idx = [t \in Threads |-> 0]
    /\ rl_filtered_count = [t \in Threads |-> 0]
    /\ rl_timer = [t \in Threads |-> "idle"]
    /\ rl_left_at = [t \in Threads |-> "none"]
    /\ stopped_from_condition = "unset"
    /\ start_pc = "idle"
    /\ closing_pc = "open"
    /\ stale = FALSE

Init ==
    /\ AppInit /\ TuneInit /\ ViewInit /\ MergeIdle /\ MaskIdle /\ ClassIdle
    /\ PreviewIdle /\ LogIdle

\* ------------------------------------------------------------ helpers
\* threading.Thread.is_alive of a thread at position pc
IsAlive(pc) == pc \notin {"unborn", "dead"}

\* The thread object a constructor call yields: an identity not in use.
FreeThreads(pcs) == {t \in Threads : ~IsAlive(pcs[t])}
NewThread(pcs) == CHOOSE t \in FreeThreads(pcs) : \A u \in FreeThreads(pcs) : t <= u

\* threading.Event.set on the CancellationSignal: a signal set now is no
\* leftover of an earlier run.
EventSet ==
    /\ stop_reroll_event' = TRUE
    /\ stale' = FALSE

\* threading.Event.clear on the CancellationSignal
EventClear ==
    /\ stop_reroll_event' = FALSE
    /\ stale' = FALSE

\* ImageProcessor.stop(): the Poller is told to stop
IpStop(t) == [ip_stop_event EXCEPT ![t] = TRUE]

\* ------------------------------------------------------------ configuration
\* on_drag_end: the capture region is selected
SelectArea ==
    /\ closing_pc = "open"
    /\ game_area' = TRUE
    /\ message_var' = "Game area set."
    /\ UNCHANGED <<chisel_button_pos, buy_button_pos, game_window_title>>
    /\ UNCHANGED <<setVars, extVars, runVars, ipVars, rlVars, evVars, start_pc, closing_pc>>

\* set_button_position: one of the two automation points is set
SetButtonPosition ==
    /\ closing_pc = "open"
    /\ \E button_type \in {"chisel", "buy"} :
        /\ chisel_button_pos' = (chisel_button_pos \/ button_type = "chisel")
        /\ buy_button_pos' = (buy_button_pos \/ button_type # "chisel")
        /\ message_var' = IF button_type = "chisel" THEN "Chisel button set"
                                                      ELSE "Buy button set"
    /\ UNCHANGED <<game_area, game_window_title>>
    /\ UNCHANGED <<setVars, extVars, runVars, ipVars, rlVars, evVars, start_pc, closing_pc>>

\* the operator edits the window-title entry (game_window_title StringVar)
EditWindowTitle ==
    /\ closing_pc = "open"
    /\ \E title \in {"", "Roblox"} :
        /\ title # game_window_title
        /\ game_window_title' = title
    /\ UNCHANGED <<game_area, chisel_button_pos, buy_button_pos, message_var>>
    /\ UNCHANGED <<setVars, extVars, runVars, ipVars, rlVars, evVars, start_pc, closing_pc>>

\* ------------------------------------------------------------ settings
\* Text typed in an entry widget: int() either yields a value or raises
\* ValueError.
EntryInputs(max) == [ok : {TRUE}, val : -1 .. max] \cup {[ok |-> FALSE, val |-> 0]}

\* select_quality(rank)
SelectQuality ==
    /\ closing_pc = "open"
    /\ \E rank \in Ranks :
        /\ rank # min_quality
        /\ min_quality' = rank
    /\ UNCHANGED <<min_objects, stop_at_ss>>
    /\ UNCHANGED <<cfgVars, extVars, runVars, message_var, ipVars, rlVars, evVars,
                   start_pc, closing_pc>>

\* update_stop_at, lines 522-527, for entry text e
UpdateStopAtWith(e) ==
    /\ closing_pc = "open"
    /\ stop_at_ss' = IF e.ok /\ e.val >= 0 THEN e.val ELSE stop_at_ss
    /\ UNCHANGED <<min_quality, min_objects>>
    /\ UNCHANGED <<cfgVars, extVars, runVars, message_var, ipVars, rlVars, evVars,
                   start_pc, closing_pc>>

\* update_min_objects, lines 541-546, for entry text e
UpdateMinObjectsWith(e) ==
    /\ closing_pc = "open"
    /\ min_objects' = IF e.ok /\ e.val >= 1 THEN e.val ELSE min_objects
    /\ UNCHANGED <<min_quality, stop_at_ss>>
    /\ UNCHANGED <<cfgVars, extVars, runVars, message_var, ipVars, rlVars, evVars,
                   start_pc, closing_pc>>

UpdateStopAt == \E e \in EntryInputs(MaxStopAt) : UpdateStopAtWith(e)

UpdateMinObjects == \E e \in EntryInputs(MaxMinObjects) : UpdateMinObjectsWith(e)

\* ------------------------------------------------------------ run control
\* stop_running_async, whole handler (lines 850-854)
StopRunningAsync ==
    /\ running' = FALSE
    /\ status_var' = "Suspended"
    /\ EventSet
    /\ ip_stop_event' =
         IF image_processor_thread # None /\ IsAlive(ip_pc[image_processor_thread])
         THEN IpStop(image_processor_thread)
         ELSE ip_stop_event

\* start_running_async without the check of buy_button_pos (lines 802-804)
StartValidate_NoBuyCheck ==
    \E win_exists \in BOOLEAN :
        IF ~game_area THEN
            /\ message_var' = "Please select area first."
            /\ UNCHANGED <<running, status_var, start_pc>>
        ELSE IF ~chisel_button_pos THEN
            /\ message_var' = "Please set Chisel Button first."
            /\ UNCHANGED <<running, status_var, start_pc>>
        ELSE IF game_window_title = "" THEN
            /\ message_var' = "Please enter a Game Window Title."
            /\ UNCHANGED <<running, status_var, start_pc>>
        ELSE IF ~win_exists THEN
            /\ message_var' = "Error: Game window not found."
            /\ UNCHANGED <<running, status_var, start_pc>>
        ELSE
            /\ message_var' = "Game window activated. Starting reroll."
            /\ running' = TRUE
            /\ status_var' = "Running"
            /\ start_pc' = "clear"

\* start_running_async, lines 795-821: input validation, window activation,
\* running flag and status.  win_exists is the input-injection collaborator's
\* answer.  A failed precondition sets a message and returns.
StartValidate ==
    \E win_exists \in BOOLEAN :
        IF ~game_area THEN
            /\ message_var' = "Please select area first."
            /\ UNCHANGED <<running, status_var, start_pc>>
        ELSE IF ~chisel_button_pos THEN
            /\ message_var' = "Please set Chisel Button first."
            /\ UNCHANGED <<running, status_var, start_pc>>
        ELSE IF ~buy_button_pos THEN
            /\ message_var' = "Please set Buy Button first."
            /\ UNCHANGED <<running, status_var, start_pc>>
        ELSE IF game_window_title = "" THEN
            /\ message_var' = "Please enter a Game Window Title."
            /\ UNCHANGED <<running, status_var, start_pc>>
        ELSE IF ~win_exists THEN
            /\ message_var' = "Error: Game window not found."
            /\ UNCHANGED <<running, status_var, start_pc>>
        ELSE
            /\ message_var' = "Game window activated. Starting reroll."
            /\ running' = TRUE
            /\ status_var' = "Running"
            /\ start_pc' = "clear"

\* start_running_async with the clear of line 827 moved to its entry, ahead
\* of the precondition checks
StartBegin_ClearFirst ==
    /\ closing_pc # "closed"
    /\ start_pc = "idle"
    /\ ~running
    /\ StartValidate
    /\ EventClear
    /\ UNCHANGED <<cfgVars, setVars, extVars, ipVars, rlVars, closing_pc>>

\* on_key_press(F5) while not running: start_running_async is entered
StartBegin ==
    /\ closing_pc # "closed"
    /\ start_pc = "idle"
    /\ ~running
    /\ StartValidate
    /\ stale' = IF start_pc' = "clear" THEN stop_reroll_event ELSE stale
    /\ UNCHANGED <<cfgVars, setVars, extVars, ipVars, rlVars, closing_pc>>
    /\ UNCHANGED stop_reroll_event

\* start_running_async without line 827
StartClear_NoClear ==
    /\ start_pc = "clear"
    /\ start_pc' = "poller"
    /\ UNCHANGED <<cfgVars, setVars, extVars, runVars, message_var, ipVars, rlVars, evVars, closing_pc>>

\* start_running_async, line 827: the CancellationSignal is cleared
StartClear ==
    /\ start_pc = "clear"
    /\ EventClear
    /\ start_pc' = "poller"
    /\ UNCHANGED <<cfgVars, setVars, extVars, runVars, message_var, ipVars, rlVars, closing_pc>>

\* start_running_async, lines 829-833: the Poller thread
StartPoller ==
    /\ start_pc = "poller"
    /\ IF image_processor_thread = None \/ ~IsAlive(ip_pc[image_processor_thread])
       THEN LET t == NewThread(ip_pc) IN
            /\ image_processor_thread' = t
            /\ ip_pc' = [ip_pc EXCEPT ![t] = "poll"]
            /\ ip_stop_event' = [ip_stop_event EXCEPT ![t] = FALSE]
       ELSE UNCHANGED <<image_processor_thread, ip_pc, ip_stop_event>>
    /\ start_pc' = "seq"
    /\ UNCHANGED <<cfgVars, setVars, extVars, runVars, message_var, snapVars,
                   rlVars, evVars, closing_pc>>

\* start_running_async without the is_alive test of line 836
StartSequencer_Always ==
    /\ start_pc = "seq"
    /\ FreeThreads(rl_pc) # {}
    /\ LET t == NewThread(rl_pc) IN
            /\ reroll_loop_thread' = t
            /\ rl_pc' = [rl_pc EXCEPT ![t] = "loop"]
            /\ rl_filtered_count' = [rl_filtered_count EXCEPT ![t] = 0]
            /\ stopped_from_condition' = "unset"
    /\ start_pc' = "idle"
    /\ UNCHANGED <<cfgVars, setVars, extVars, runVars, message_var, ipVars, rl_min_rank_idx,
                   rl_timer, rl_left_at, evVars, closing_pc>>

\* start_running_async, lines 835-838: the Sequencer thread; a new thread
\* begins with lines 1141-1146 (the presence collaborator is initialised,
\* ss_count and filtered_count are 0)
StartSequencer ==
    /\ start_pc = "seq"
    /\ IF reroll_loop_thread = None \/ ~IsAlive(rl_pc[reroll_loop_thread])
       THEN LET t == NewThread(rl_pc) IN
            /\ reroll_loop_thread' = t
            /\ rl_pc' = [rl_pc EXCEPT ![t] = "loop"]
            /\ rl_filtered_count' = [rl_filtered_count EXCEPT ![t] = 0]
            /\ stopped_from_condition' = "unset"
       ELSE UNCHANGED <<reroll_loop_thread, rl_pc, rl_filtered_count,
                        stopped_from_condition>>
    /\ start_pc' = "idle"
    /\ UNCHANGED <<cfgVars, setVars, extVars, runVars, message_var, ipVars, rl_min_rank_idx,
                   rl_timer, rl_left_at, evVars, closing_pc>>

\* on_key_press(F5) while running: stop_running_async
KeyStop ==
    /\ closing_pc # "closed"
    /\ start_pc = "idle"
    /\ running
    /\ StopRunningAsync
    /\ UNCHANGED <<cfgVars, setVars, extVars, message_var, image_processor_thread, ip_pc,
                   snapVars, rlVars, start_pc, closing_pc>>

\* _on_closing without lines 469-471: nothing is signalled before the wait
CloseBegin_NoSignal ==
    /\ closing_pc = "open"
    /\ closing_pc' = "waiting"
    /\ UNCHANGED <<cfgVars, setVars, extVars, runVars, message_var, ipVars, rlVars,
                   evVars, start_pc>>

\* _on_closing, lines 469-471: stop_running_async, the Poller told to stop
CloseBegin ==
    /\ closing_pc = "open"
    /\ StopRunningAsync
    /\ closing_pc' = "waiting"
    /\ UNCHANGED <<cfgVars, setVars, extVars, message_var, image_processor_thread, ip_pc,
                   snapVars, rlVars, start_pc>>

\* _on_closing with join() in place of join(timeout=1.0): the wait ends only
\* when no Poller is alive
CloseFinish_JoinUnbounded ==
    /\ closing_pc = "waiting"
    /\ IF image_processor_thread = None THEN TRUE
       ELSE ~IsAlive(ip_pc[image_processor_thread])
    /\ closing_pc' = "closed"
    /\ UNCHANGED <<cfgVars, setVars, extVars, runVars, message_var, ipVars, rlVars,
                   evVars, start_pc>>

\* _on_closing, lines 472-474: join(timeout=1.0) has returned (the Poller
\* exited, or the timeout expired, or no Poller was alive); listener.stop()
\* and root.destroy()
CloseFinish ==
    /\ closing_pc = "waiting"
    /\ closing_pc' = "closed"
    /\ UNCHANGED <<cfgVars, setVars, extVars, runVars, message_var, ipVars, rlVars, evVars, start_pc>>

\* ------------------------------------------------------------ stop condition
\* reroll_loop, lines 1205-1208: the counts of the ranks at or above min_rank_idx
FilteredCount(counts, min_rank_idx) ==
    SumOver(counts, {r \in Ranks : RANK_ORDER[r] >= min_rank_idx})

\* lines 1232-1235 with the SS count compared strictly
StoppedFromCondition_StrictSS(mo, sas, filtered_count, ss_count) ==
    (mo > 0 /\ filtered_count >= mo) \/ (sas > 0 /\ ss_count > sas)

\* reroll_loop, lines 1232-1235
StoppedFromCondition(mo, sas, filtered_count, ss_count) ==
    (mo > 0 /\ filtered_count >= mo) \/ (sas > 0 /\ ss_count >= sas)

\* The Poller's stop condition (spec.md section 4.3)
StopCondition(counts, mq, mo, sas) ==
    (sas > 0 /\ counts[SS] >= sas) \/ (FilteredCount(counts, RANK_ORDER[mq]) >= mo)

\* ------------------------------------------------------------ Detection Poller
\* One loop iteration up to the publish: an external stop request is honored,
\* else a frame is classified and the snapshot and the object list are replaced
\* together.  (A missing frame is retried and changes nothing.)
IpPoll(t) ==
    /\ ip_pc[t] = "poll"
    /\ IF ip_stop_event[t]
       THEN /\ ip_pc' = [ip_pc EXCEPT ![t] = "stopping"]
            /\ UNCHANGED snapVars
       ELSE \E objs \in Detections :
            /\ detected_objs' = objs
            /\ current_rank_counts' = CountByRank(objs)
            /\ ip_pc' = [ip_pc EXCEPT ![t] = "eval"]
    /\ UNCHANGED <<cfgVars, setVars, extVars, runVars, message_var, image_processor_thread,
                   ip_stop_event, rlVars, evVars, start_pc, closing_pc>>

\* Step 5 of the loop: the stop condition is evaluated and, if satisfied, the
\* CancellationSignal is set and the Poller goes to Stopping.
IpEval(t) ==
    /\ ip_pc[t] = "eval"
    /\ IF StopCondition(current_rank_counts, min_quality, min_objects, stop_at_ss)
       THEN /\ EventSet
            /\ ip_pc' = [ip_pc EXCEPT ![t] = "stopping"]
       ELSE /\ ip_pc' = [ip_pc EXCEPT ![t] = "poll"]
            /\ UNCHANGED evVars
    /\ UNCHANGED <<cfgVars, setVars, extVars, runVars, message_var, image_processor_thread,
                   ip_stop_event, snapVars, rlVars, start_pc, closing_pc>>

\* Stopping: the capture handle is released and the thread ends.
IpStopping(t) ==
    /\ ip_pc[t] = "stopping"
    /\ ip_pc' = [ip_pc EXCEPT ![t] = "dead"]
    /\ ip_stop_event' = [ip_stop_event EXCEPT ![t] = FALSE]
    /\ UNCHANGED <<cfgVars, setVars, extVars, runVars, message_var, image_processor_thread,
                   snapVars, rlVars, evVars, start_pc, closing_pc>>

\* ------------------------------------------------------------ Automation Sequencer
\* Everything a Sequencer step leaves alone besides its own variables.
SeqFrame ==
    UNCHANGED <<cfgVars, setVars, extVars, runVars, ipVars, reroll_loop_thread,
                evVars, start_pc, closing_pc>>

\* Thread t moves to position pc.
SeqGoto(t, pc) ==
    /\ rl_pc' = [rl_pc EXCEPT ![t] = pc]
    /\ UNCHANGED rl_left_at

\* Thread t leaves the loop (break, or the loop condition false) at
\* checkpoint `at`; line 1227 is next.
SeqLeave(t, at) ==
    /\ rl_pc' = [rl_pc EXCEPT ![t] = "exit"]
    /\ rl_left_at' = [rl_left_at EXCEPT ![t] = at]

\* A checkpoint of thread t: with the signal set the loop is left, else
\* position pc is next.
SeqCheckpoint(t, at, pc) ==
    IF stop_reroll_event THEN SeqLeave(t, at) ELSE SeqGoto(t, pc)

\* Thread t ends: its locals are gone.
SeqEnd(t) ==
    /\ rl_pc' = [rl_pc EXCEPT ![t] = "dead"]
    /\ rl_filtered_count' = [rl_filtered_count EXCEPT ![t] = 0]
    /\ rl_min_rank_idx' = [rl_min_rank_idx EXCEPT ![t] = 0]
    /\ rl_left_at' = [rl_left_at EXCEPT ![t] = "none"]

\* reroll_loop, line 1148: the loop condition
SeqLoop(t) ==
    /\ rl_pc[t] = "loop"
    /\ SeqCheckpoint(t, "loop", "wait0")
    /\ UNCHANGED <<rlLocals, rl_timer, stopped_from_condition, message_var>>
    /\ SeqFrame

\* reroll_loop with the result of the wait of line 1156 ignored
SeqWait0_NoCheck(t) ==
    /\ rl_pc[t] = "wait0"
    /\ SeqGoto(t, "click1")
    /\ rl_min_rank_idx' = [rl_min_rank_idx EXCEPT ![t] = RANK_ORDER[min_quality]]
    /\ UNCHANGED <<rl_filtered_count, rl_timer, stopped_from_condition, message_var>>
    /\ SeqFrame

\* reroll_loop, lines 1152-1181: the pre-cycle checkpoint; when it passes,
\* min_rank_idx is read (and the cycle logged)
SeqWait0(t) ==
    /\ rl_pc[t] = "wait0"
    /\ IF stop_reroll_event
       THEN /\ SeqLeave(t, "wait0")
            /\ UNCHANGED rl_min_rank_idx
       ELSE /\ SeqGoto(t, "click1")
            /\ rl_min_rank_idx' = [rl_min_rank_idx EXCEPT ![t] = RANK_ORDER[min_quality]]
    /\ UNCHANGED <<rl_filtered_count, rl_timer, stopped_from_condition, message_var>>
    /\ SeqFrame

\* reroll_loop, lines 1184-1185: the first (chisel) click; its delay begins
SeqClick1(t) ==
    /\ rl_pc[t] = "click1"
    /\ rl_timer' = [rl_timer EXCEPT ![t] = "running"]
    /\ SeqGoto(t, "sleep1")
    /\ UNCHANGED <<rlLocals, stopped_from_condition, message_var>>
    /\ SeqFrame

\* The position that follows each time.sleep of the loop.
AfterSleep(pc) ==
    CASE pc = "sleep1" -> "wait1"
      [] pc = "sleep2" -> "wait2"
      [] pc = "sleep3" -> "counts"

\* time.sleep (lines 1185, 1192, 1201) returns once its delay has elapsed,
\* whatever the state of the CancellationSignal
SeqSleep(t) ==
    /\ rl_pc[t] \in {"sleep1", "sleep2", "sleep3"}
    /\ rl_timer[t] = "elapsed"
    /\ rl_timer' = [rl_timer EXCEPT ![t] = "idle"]
    /\ SeqGoto(t, AfterSleep(rl_pc[t]))
    /\ UNCHANGED <<rlLocals, stopped_from_condition, message_var>>
    /\ SeqFrame

\* Time passes: the delay of the sleep a Sequencer is in elapses.
Tick(t) ==
    /\ rl_timer[t] = "running"
    /\ rl_timer' = [rl_timer EXCEPT ![t] = "elapsed"]
    /\ UNCHANGED <<rl_pc, rl_left_at, rlLocals, stopped_from_condition, message_var>>
    /\ SeqFrame

\* reroll_loop with the result of the wait of line 1188 ignored
SeqWait1_NoCheck(t) ==
    /\ rl_pc[t] = "wait1"
    /\ SeqGoto(t, "click2")
    /\ UNCHANGED <<rlLocals, rl_timer, stopped_from_condition, message_var>>
    /\ SeqFrame

\* reroll_loop with `continue` after the checkpoint of line 1188: the cycle is
\* abandoned after the first click and the next one begins
SeqWait1_Continue(t) ==
    /\ rl_pc[t] = "wait1"
    /\ SeqCheckpoint(t, "wait1", "loop")
    /\ UNCHANGED <<rlLocals, rl_timer, stopped_from_condition, message_var>>
    /\ SeqFrame

\* reroll_loop, lines 1188-1189: the checkpoint after the first click's delay
SeqWait1(t) ==
    /\ rl_pc[t] = "wait1"
    /\ SeqCheckpoint(t, "wait1", "click2")
    /\ UNCHANGED <<rlLocals, rl_timer, stopped_from_condition, message_var>>
    /\ SeqFrame

\* reroll_loop, lines 1191-1192: the second (buy) click; its delay begins
SeqClick2(t) ==
    /\ rl_pc[t] = "click2"
    /\ rl_timer' = [rl_timer EXCEPT ![t] = "running"]
    /\ SeqGoto(t, "sleep2")
    /\ UNCHANGED <<rlLocals, stopped_from_condition, message_var>>
    /\ SeqFrame

\* reroll_loop with the result of the wait of line 1195 ignored
SeqWait2_NoCheck(t) ==
    /\ rl_pc[t] = "wait2"
    /\ SeqGoto(t, "sleep3")
    /\ rl_timer' = [rl_timer EXCEPT ![t] = "running"]
    /\ UNCHANGED <<rlLocals, stopped_from_condition, message_var>>
    /\ SeqFrame

\* reroll_loop, lines 1195-1201: the checkpoint after the second click's delay;
\* when it passes, the post-reroll delay begins
SeqWait2(t) ==
    /\ rl_pc[t] = "wait2"
    /\ IF stop_reroll_event
       THEN /\ SeqLeave(t, "wait2")
            /\ UNCHANGED rl_timer
       ELSE /\ SeqGoto(t, "sleep3")
            /\ rl_timer' = [rl_timer EXCEPT ![t] = "running"]
    /\ UNCHANGED <<rlLocals, stopped_from_condition, message_var>>
    /\ SeqFrame

\* reroll_loop, lines 1203-1225: the snapshot is read, the progress message is
\* posted with root.after (which raises once the root window is destroyed, and
\* the thread ends), and the presence collaborator is told the run is rolling
SeqCounts(t) ==
    /\ rl_pc[t] = "counts"
    /\ IF closing_pc = "closed"
       THEN /\ SeqEnd(t)
            /\ UNCHANGED <<message_var, stopped_from_condition>>
       ELSE /\ rl_filtered_count' =
                 [rl_filtered_count EXCEPT
                    ![t] = FilteredCount(current_rank_counts, rl_min_rank_idx[t])]
            /\ message_var' = "Detected. Rolling..."
            /\ stopped_from_condition' = "unset"
            /\ SeqGoto(t, "loop")
            /\ UNCHANGED rl_min_rank_idx
    /\ UNCHANGED rl_timer
    /\ SeqFrame

\* reroll_loop, lines 1227-1244: after the loop, ss_count is read from the
\* snapshot, stopped_from_condition is computed from it and from the
\* filtered_count of the last completed cycle, and reported; the thread ends
SeqExit(t) ==
    /\ rl_pc[t] = "exit"
    /\ LET ss_count == current_rank_counts[SS] IN
       stopped_from_condition' =
         IF StoppedFromCondition(min_objects, stop_at_ss, rl_filtered_count[t], ss_count)
         THEN "yes" ELSE "no"
    /\ SeqEnd(t)
    /\ UNCHANGED <<rl_timer, message_var>>
    /\ SeqFrame

\* One step of Sequencer thread t
SeqStep(t) ==
    \/ SeqLoop(t)
    \/ SeqWait0(t)
    \/ SeqClick1(t)
    \/ SeqSleep(t)
    \/ SeqWait1(t)
    \/ SeqClick2(t)
    \/ SeqWait2(t)
    \/ SeqCounts(t)
    \/ SeqExit(t)

\* ------------------------------------------------------------ specifications
\* Run control: configuration, start, stop, window close and the two worker
\* threads, with the minimum rank and the stop-at-SS count at their defaults.
Next ==
    \/ SelectArea
    \/ SetButtonPosition
    \/ EditWindowTitle
    \/ UpdateMinObjects
    \/ StartBegin
    \/ StartClear
    \/ StartPoller
    \/ StartSequencer
    \/ KeyStop
    \/ CloseBegin
    \/ CloseFinish
    \/ \E t \in Threads : IpPoll(t)
    \/ \E t \in Threads : IpEval(t)
    \/ \E t \in Threads : IpStopping(t)
    \/ \E t \in Threads : SeqStep(t)
    \/ \E t \in Threads : Tick(t)

Spec == Init /\ [][Next]_vars

\* The Sequencer threads are scheduled and time passes.
FairSpec == Spec /\ \A t \in Threads : WF_vars(SeqStep(t)) /\ WF_vars(Tick(t))

\* join(timeout=1.0), listener.stop() and root.destroy() return: _on_closing,
\* once waiting, is not held up for ever.  Nothing is assumed of the threads.
CloseFairSpec == Spec /\ WF_vars(CloseFinish)

\* One run under every change of the stop settings: the state a successful
\* start leaves (region, points and title configured, both threads started),
\* then the settings handlers, the Poller, the Sequencer and the operator's stop.
RunInit ==
    /\ TuneInit /\ ViewInit /\ MergeIdle /\ MaskIdle /\ ClassIdle
    /\ PreviewIdle /\ LogIdle
    /\ game_area = TRUE
    /\ chisel_button_pos = TRUE
    /\ buy_button_pos = TRUE
    /\ game_window_title = "Roblox"
    /\ running = TRUE
    /\ status_var = "Running"
    /\ message_var = "Game window activated. Starting reroll."
    /\ min_quality = F
    /\ min_objects = 1
    /\ stop_at_ss = 0
    /\ stop_reroll_event = FALSE
    /\ image_processor_thread = 1
    /\ reroll_loop_thread = 1
    /\ ip_pc = [t \in Threads |-> IF t = 1 THEN "poll" ELSE "unborn"]
    /\ ip_stop_event = [t \in Threads |-> FALSE]
    /\ current_rank_counts = ZeroCounts
    /\ detected_objs = <<>>
    /\ rl_pc = [t \in Threads |-> IF t = 1 THEN "loop" ELSE "unborn"]
    /\ rl_min_rank_idx = [t \in Threads |-> 0]
    /\ rl_filtered_count = [t \in Threads |-> 0]
    /\ rl_timer = [t \in Threads |-> "idle"]
    /\ rl_left_at = [t \in Threads |-> "none"]
    /\ stopped_from_condition = "unset"
    /\ start_pc = "idle"
    /\ closing_pc = "open"
    /\ stale = FALSE

RunNext ==
    \/ SelectQuality
    \/ UpdateStopAt
    \/ UpdateMinObjects
    \/ KeyStop
    \/ \E t \in Threads : IpPoll(t)
    \/ \E t \in Threads : IpEval(t)
    \/ \E t \in Threads : IpStopping(t)
    \/ \E t \in Threads : SeqStep(t)
    \/ \E t \in Threads : Tick(t)

RunSpec == RunInit /\ [][RunNext]_vars

\* ------------------------------------------------------------ rank counts and cached objects
\* What the presentation path leaves alone besides the variables it names.
ViewFrame ==
    UNCHANGED <<cfgVars, setVars, runVars, image_processor_thread, ip_stop_event,
                rlVars, start_pc, closing_pc, tuneVars, mergeVars, maskVars, classVars,
                previewVars, logVars>>

\* root.after(0, lambda: self.update_rank_counts_gui(objs)) by component `by`
Schedule(objs, by) == after_queue' = Append(after_queue, [objs |-> objs, by |-> by])

\* The Poller's loop iteration with its notification (spec.md section 4.3,
\* steps 1-4): the snapshot and the object list are replaced together, then
\* the presentation layer is notified through update_rank_counts_gui.
IpPollNotify(t) ==
    /\ ip_pc[t] = "poll"
    /\ ~ip_stop_event[t]
    /\ Len(after_queue) < MaxQueue
    /\ \E objs \in Detections :
        /\ detected_objs' = objs
        /\ current_rank_counts' = CountByRank(objs)
        /\ Schedule(objs, "poller")
    /\ ip_pc' = [ip_pc EXCEPT ![t] = "eval"]
    /\ UNCHANGED <<message_var, evVars, preview_active, last_detected_objs, rank_counts,
                   written_by, log_pc, log_objs, log_counts>>
    /\ ViewFrame

\* The Poller's step 5 and its Stopping state while the presentation path is observed.
IpFinish(t) ==
    /\ ip_pc[t] \in {"eval", "stopping"}
    /\ IF ip_pc[t] = "stopping"
       THEN /\ ip_pc' = [ip_pc EXCEPT ![t] = "dead"]
            /\ UNCHANGED evVars
       ELSE IF StopCondition(current_rank_counts, min_quality, min_objects, stop_at_ss)
       THEN /\ EventSet
            /\ ip_pc' = [ip_pc EXCEPT ![t] = "stopping"]
       ELSE /\ ip_pc' = [ip_pc EXCEPT ![t] = "poll"]
            /\ UNCHANGED evVars
    /\ UNCHANGED <<message_var, snapVars, viewVars>>
    /\ ViewFrame

\* start_preview, lines 904-917: the preview is toggled
StartPreview ==
    /\ closing_pc = "open"
    /\ IF ~game_area
       THEN /\ message_var' = "Please select area first to start preview."
            /\ UNCHANGED preview_active
       ELSE /\ preview_active' = ~preview_active
            /\ UNCHANGED message_var
    /\ UNCHANGED <<ip_pc, snapVars, evVars, after_queue, last_detected_objs, rank_counts,
                   written_by, log_pc, log_objs, log_counts>>
    /\ ViewFrame

\* preview_loop, lines 933-945: the preview thread classifies its own frame
\* and schedules update_rank_counts_gui with the result
PreviewDetect ==
    /\ preview_active
    /\ game_area
    /\ Len(after_queue) < MaxQueue
    /\ \E objs \in Detections : Schedule(objs, "preview")
    /\ UNCHANGED <<message_var, ip_pc, snapVars, evVars, preview_active, last_detected_objs,
                   rank_counts, written_by, log_pc, log_objs, log_counts>>
    /\ ViewFrame

\* lines 888-889: the loop over detected_objs from object i on, one
\* increment of the object's rank per object
RECURSIVE CountObjects(_, _, _)
CountObjects(counts, objs, i) ==
    IF i > Len(objs) THEN counts
    ELSE CountObjects([counts EXCEPT ![objs[i]] = @ + 1], objs, i + 1)

\* update_rank_counts_gui without the reset of lines 886-887
CountRanks_NoReset(counts, objs) == CountObjects(counts, objs, 1)

\* update_rank_counts_gui, lines 886-889: self.rank_counts is updated in
\* place, every rank of rank_count_vars reset to 0, then the objects counted
CountRanks(counts, objs) ==
    CountObjects([r \in DOMAIN counts |-> IF r \in Ranks THEN 0 ELSE counts[r]], objs, 1)

\* update_rank_counts_gui, lines 884-894, run by the Tk main thread for the
\* oldest scheduled callback
UpdateRankCountsGui ==
    /\ closing_pc # "closed"
    /\ after_queue # <<>>
    /\ last_detected_objs' = Head(after_queue).objs
    /\ rank_counts' = CountRanks(rank_counts, Head(after_queue).objs)
    /\ written_by' = Head(after_queue).by
    /\ after_queue' = Tail(after_queue)
    /\ UNCHANGED <<message_var, ip_pc, snapVars, evVars, preview_active,
                   log_pc, log_objs, log_counts>>
    /\ ViewFrame

\* reroll_loop, lines 1156-1161: a cycle passes its checkpoint and reads
\* self.last_detected_objs
LogReadObjs ==
    /\ log_pc = "idle"
    /\ \E t \in Threads : IsAlive(rl_pc[t]) /\ rl_pc[t] # "exit"
    /\ ~stop_reroll_event
    /\ log_objs' = last_detected_objs
    /\ log_pc' = "objs"
    /\ UNCHANGED <<message_var, ip_pc, snapVars, evVars, preview_active, after_queue,
                   last_detected_objs, rank_counts, written_by, log_counts>>
    /\ ViewFrame

\* reroll_loop, lines 1163-1181: with logging enabled and a non-empty object
\* list, get_current_rank_counts() is read and log_event receives the pair
LogEvent ==
    /\ log_pc = "objs"
    /\ IF log_objs # <<>>
       THEN /\ log_counts' = current_rank_counts
            /\ log_pc' = "logged"
            /\ UNCHANGED log_objs
       ELSE /\ log_pc' = "idle"
            /\ UNCHANGED <<log_objs, log_counts>>
    /\ UNCHANGED <<message_var, ip_pc, snapVars, evVars, preview_active, after_queue,
                   last_detected_objs, rank_counts, written_by>>
    /\ ViewFrame

\* reroll_loop, lines 1183-1225: the rest of the cycle; its locals are dropped
LogCycleEnd ==
    /\ log_pc = "logged"
    /\ log_pc' = "idle"
    /\ log_objs' = <<>>
    /\ log_counts' = ZeroCounts
    /\ UNCHANGED <<message_var, ip_pc, snapVars, evVars, preview_active, after_queue,
                   last_detected_objs, rank_counts, written_by>>
    /\ ViewFrame

\* A run in progress, observed on the path from detection to the readers of
\* the counts and the cached object list.
ViewNext ==
    \/ UpdateMinObjects
    \/ \E t \in Threads : IpPollNotify(t)
    \/ \E t \in Threads : IpFinish(t)
    \/ StartPreview
    \/ PreviewDetect
    \/ UpdateRankCountsGui
    \/ LogReadObjs
    \/ LogEvent
    \/ LogCycleEnd

ViewSpec == RunInit /\ [][ViewNext]_vars

\* ------------------------------------------------------------ merge_rectangles
\* Rectangles are tuples <<x, y, w, h>>.
\* rect_distance, lines 1052-1072: the horizontal and the vertical gap
rect_distance(r1, r2) ==
    LET x1 == r1[1]  y1 == r1[2]  w1 == r1[3]  h1 == r1[4]
        x2 == r2[1]  y2 == r2[2]  w2 == r2[3]  h2 == r2[4]
        left == x2 + w2 < x1
        right == x1 + w1 < x2
        dx == IF right THEN x2 - (x1 + w1) ELSE IF left THEN x1 - (x2 + w2) ELSE 0
        above == y2 + h2 < y1
        below == y1 + h1 < y2
        dy == IF below THEN y2 - (y1 + h1) ELSE IF above THEN y1 - (y2 + h2) ELSE 0
    IN  <<dx, dy>>

\* lines 1090-1091 with a strict comparison
WithinDistance_Strict(r1, r2, max_distance) ==
    LET g == rect_distance(r1, r2)
    IN  g[1] * g[1] + g[2] * g[2] < max_distance * max_distance

\* lines 1074 and 1090-1091: np.hypot(dx, dy) <= max_distance; for integer
\* gaps and a non-negative integer max_distance this is the comparison of the
\* squares
WithinDistance(r1, r2, max_distance) ==
    LET g == rect_distance(r1, r2)
    IN  g[1] * g[1] + g[2] * g[2] <= max_distance * max_distance

Min2(a, b) == IF a <= b THEN a ELSE b
Max2(a, b) == IF a >= b THEN a ELSE b

\* the scan with each candidate compared with the grown merged_rect instead
\* of rects[i]
RECURSIVE MergeScan_Envelope(_, _, _, _, _, _)
MergeScan_Envelope(rects, max_distance, i, j, mr, used) ==
    IF j > Len(rects) THEN [mr |-> mr, used |-> used]
    ELSE IF used[j] THEN MergeScan_Envelope(rects, max_distance, i, j + 1, mr, used)
    ELSE IF WithinDistance(<<mr[1], mr[2], mr[3] - mr[1], mr[4] - mr[2]>>, rects[j],
                           max_distance)
         THEN LET r == rects[j]
              IN  MergeScan_Envelope(rects, max_distance, i, j + 1,
                            <<Min2(mr[1], r[1]), Min2(mr[2], r[2]),
                              Max2(mr[3], r[1] + r[3]), Max2(mr[4], r[2] + r[4])>>,
                            [used EXCEPT ![j] = TRUE])
         ELSE MergeScan_Envelope(rects, max_distance, i, j + 1, mr, used)

\* lines 1087-1099: the scan of the rectangles after i, from j on; mr is
\* merged_rect as [min_x, min_y, max_x, max_y]; candidates are compared with
\* rects[i] itself
RECURSIVE MergeScan(_, _, _, _, _, _)
MergeScan(rects, max_distance, i, j, mr, used) ==
    IF j > Len(rects) THEN [mr |-> mr, used |-> used]
    ELSE IF used[j] THEN MergeScan(rects, max_distance, i, j + 1, mr, used)
    ELSE IF WithinDistance(rects[i], rects[j], max_distance)
         THEN LET r == rects[j]
              IN  MergeScan(rects, max_distance, i, j + 1,
                            <<Min2(mr[1], r[1]), Min2(mr[2], r[2]),
                              Max2(mr[3], r[1] + r[3]), Max2(mr[4], r[2] + r[4])>>,
                            [used EXCEPT ![j] = TRUE])
         ELSE MergeScan(rects, max_distance, i, j + 1, mr, used)

\* the pass without line 1097: a folded rectangle is not marked as used
RECURSIVE MergePass_NoUsed(_, _, _, _, _)
MergePass_NoUsed(rects, max_distance, i, merged, used) ==
    IF i > Len(rects) THEN merged
    ELSE LET r == rects[i]
             s == MergeScan(rects, max_distance, i, i + 1,
                            <<r[1], r[2], r[1] + r[3], r[2] + r[4]>>,
                            [used EXCEPT ![i] = TRUE])
         IN  MergePass_NoUsed(rects, max_distance, i + 1,
                       Append(merged, <<s.mr[1], s.mr[2],
                                        s.mr[3] - s.mr[1], s.mr[4] - s.mr[2]>>),
                       used)

\* lines 1076-1103: the pass over the rectangles in input order
RECURSIVE MergePass(_, _, _, _, _)
MergePass(rects, max_distance, i, merged, used) ==
    IF i > Len(rects) THEN merged
    ELSE IF used[i] THEN MergePass(rects, max_distance, i + 1, merged, used)
    ELSE LET r == rects[i]
             s == MergeScan(rects, max_distance, i, i + 1,
                            <<r[1], r[2], r[1] + r[3], r[2] + r[4]>>,
                            [used EXCEPT ![i] = TRUE])
         IN  MergePass(rects, max_distance, i + 1,
                       Append(merged, <<s.mr[1], s.mr[2],
                                        s.mr[3] - s.mr[1], s.mr[4] - s.mr[2]>>),
                       s.used)

\* merge_rectangles(rects, max_distance), lines 1035-1103
merge_rectangles(rects, max_distance) ==
    MergePass(rects, max_distance, 1, <<>>, [k \in 1 .. Len(rects) |-> FALSE])

\* The rectangles of the bounded plane, and those of one row of unit squares.
Rects == {<<x, y, w, h>> : x \in 0 .. MaxCoord, y \in 0 .. MaxCoord,
                           w \in 1 .. MaxSide, h \in 1 .. MaxSide}
RowRects == {<<x, 0, 1, 1>> : x \in 0 .. MaxRowCoord}
GridRects == {<<x, y, 1, 1>> : x \in 0 .. MaxGridCoord, y \in 0 .. MaxGridCoord}
\* Scenario B of the specification, and a pair of unit squares whose gaps are 3 and 4.
ScenarioB == << <<0, 0, 4, 4>>, <<5, 0, 4, 4>> >>
Diagonal345 == << <<0, 0, 1, 1>>, <<4, 5, 1, 1>> >>
\* The calls that are examined: every pair of rectangles of the plane, every
\* list of up to MaxRects rectangles of the row, every triple of unit squares
\* of the grid, and the two named pairs
MergeInputs ==
    [rects : [1 .. 2 -> Rects] \cup UNION {[1 .. n -> RowRects] : n \in 0 .. MaxRects}
             \cup [1 .. 3 -> GridRects],
     d : 0 .. MaxDist]
    \cup [rects : {ScenarioB, Diagonal345}, d : {0, 1, 4, 5}]

MergeInit ==
    /\ AppInit /\ TuneInit /\ ViewInit /\ MaskIdle /\ ClassIdle
    /\ PreviewIdle /\ LogIdle
    /\ \E in \in MergeInputs :
        /\ m_rects = in.rects
        /\ m_dist = in.d
    /\ m_pc = "args"
    /\ m_out = <<>>
    /\ m_again = <<>>

\* merged = self.merge_rectangles(rects, max_distance)
MergeCall ==
    /\ m_pc = "args"
    /\ m_out' = merge_rectangles(m_rects, m_dist)
    /\ m_pc' = "merged"
    /\ UNCHANGED <<m_rects, m_dist, m_again>>
    /\ UNCHANGED <<appVars, tuneVars, viewVars, maskVars, classVars, previewVars, logVars>>

\* merge_rectangles applied to its own result
MergeAgain ==
    /\ m_pc = "merged"
    /\ m_again' = merge_rectangles(m_out, m_dist)
    /\ m_pc' = "again"
    /\ UNCHANGED <<m_rects, m_dist, m_out>>
    /\ UNCHANGED <<appVars, tuneVars, viewVars, maskVars, classVars, previewVars, logVars>>

\* merge_rectangles applied to the same rectangles in another order
MergePermuted ==
    /\ m_pc = "merged"
    /\ \E p \in Permutations(1 .. Len(m_rects)) :
        m_again' = merge_rectangles([i \in 1 .. Len(m_rects) |-> m_rects[p[i]]], m_dist)
    /\ m_pc' = "permuted"
    /\ UNCHANGED <<m_rects, m_dist, m_out>>
    /\ UNCHANGED <<appVars, tuneVars, viewVars, maskVars, classVars, previewVars, logVars>>

MergeNext == MergeCall \/ MergeAgain \/ MergePermuted

MergeSpec == MergeInit /\ [][MergeNext]_vars

\* ------------------------------------------------------------ rank_mask
\* A frame is a row of pixels, a pixel a tuple <<b, g, r>> of channel values.
Abs(x) == IF x < 0 THEN -x ELSE x
\* The value of a matching pixel in the mask (line 1018).
MaskOn == 255

\* A value stored in a signed 16-bit integer (numpy int16)
Int16(x) == ((x + 32768) % 65536) - 32768

\* line 1016 without astype(np.int16): the subtraction is done in the frame's
\* unsigned 8-bit type and wraps modulo 256
ChannelDiff_Uint8(pixel, reference) == (pixel - reference) % 256

\* line 1016 for one channel: the pixel value is converted to int16, the
\* reference value subtracted and the absolute value taken, in a signed type
\* of 16 bits or more
ChannelDiff(pixel, reference) == Int16(Abs(Int16(Int16(pixel) - reference)))

\* rank_mask with the comparison of line 1018 reversed
rank_mask_Reversed(frame, color_bgr, tol) ==
    [i \in DOMAIN frame |->
        IF \A c \in 1 .. 3 : Abs(frame[i][c] - color_bgr[c]) >= tol
        THEN MaskOn ELSE 0]

\* rank_mask with a threshold on the summed difference of the three channels
rank_mask_Summed(frame, color_bgr, tol) ==
    [i \in DOMAIN frame |->
        IF Abs(frame[i][1] - color_bgr[1]) + Abs(frame[i][2] - color_bgr[2])
             + Abs(frame[i][3] - color_bgr[3]) <= tol
        THEN MaskOn ELSE 0]

\* rank_mask, lines 1016-1019: the differences are taken per channel in
\* int16, a pixel matches when all three are within the tolerance
rank_mask(frame, color_bgr, tol) ==
    [i \in DOMAIN frame |->
        IF \A c \in 1 .. 3 : ChannelDiff(frame[i][c], color_bgr[c]) <= tol
        THEN MaskOn ELSE 0]

Pixels == [1 .. 3 -> 0 .. MaxChannel]
Frames == UNION {[1 .. n -> Pixels] : n \in 1 .. MaxPixels}

MaskInit ==
    /\ AppInit /\ TuneInit /\ ViewInit /\ MergeIdle /\ ClassIdle
    /\ PreviewIdle /\ LogIdle
    /\ k_frame \in Frames
    /\ k_color \in Pixels
    /\ k_tol \in {t \in (0 .. MaxMaskTol) \X (0 .. MaxMaskTol) : t[1] <= t[2]}
    /\ k_pc = "args"
    /\ k_mask = <<>>

\* mask = self.rank_mask(frame, color_bgr, t1)
MaskFirst ==
    /\ k_pc = "args"
    /\ k_mask' = <<rank_mask(k_frame, k_color, k_tol[1])>>
    /\ k_pc' = "one"
    /\ UNCHANGED <<k_frame, k_color, k_tol>>
    /\ UNCHANGED <<appVars, tuneVars, viewVars, mergeVars, classVars, previewVars, logVars>>

\* mask = self.rank_mask(frame, color_bgr, t2) for the same frame and color
MaskSecond ==
    /\ k_pc = "one"
    /\ k_mask' = Append(k_mask, rank_mask(k_frame, k_color, k_tol[2]))
    /\ k_pc' = "two"
    /\ UNCHANGED <<k_frame, k_color, k_tol>>
    /\ UNCHANGED <<appVars, tuneVars, viewVars, mergeVars, classVars, previewVars, logVars>>

MaskNext == MaskFirst \/ MaskSecond

MaskSpec == MaskInit /\ [][MaskNext]_vars

\* Channel values and tolerances over the whole range of a byte: both ends,
\* their neighbours and the middle.
ByteValues == {0, 1, 128, 254, 255}
BytePixels == [1 .. 3 -> ByteValues]

\* rank_mask called for one pixel, one reference color and one tolerance
\* taken from the whole range.
ByteMaskInit ==
    /\ AppInit /\ TuneInit /\ ViewInit /\ MergeIdle /\ ClassIdle
    /\ PreviewIdle /\ LogIdle
    /\ k_frame \in [1 .. 1 -> BytePixels]
    /\ k_color \in BytePixels
    /\ k_tol \in {<<t, t>> : t \in ByteValues}
    /\ k_pc = "args"
    /\ k_mask = <<>>

ByteMaskSpec == ByteMaskInit /\ [][MaskNext]_vars

\* The values of an 8-bit channel.
Bytes == 0 .. 255

\* rank_mask called for one pixel whose first channel and a reference color
\* whose channels take every value of a byte; the pixel's other channels
\* equal the reference.
DiffInit ==
    /\ AppInit /\ TuneInit /\ ViewInit /\ MergeIdle /\ ClassIdle
    /\ PreviewIdle /\ LogIdle
    /\ k_color \in {<<r, r, r>> : r \in Bytes}
    /\ k_frame \in {<< <<p, k_color[2], k_color[3]>> >> : p \in Bytes}
    /\ k_tol \in {<<t, t>> : t \in ByteValues}
    /\ k_pc = "args"
    /\ k_mask = <<>>

DiffSpec == DiffInit /\ [][MaskNext]_vars

\* ------------------------------------------------------------ tuning settings
\* The largest color tolerance update_tolerance accepts (line 506).
MaxTolerance == 255
\* Text typed in the tolerance entry: small values and those around the limit.
ToleranceInputs ==
    EntryInputs(MaxTune) \cup [ok : {TRUE}, val : {MaxTolerance, MaxTolerance + 1}]

\* What a handler for one tuning setting leaves alone besides the tuning settings.
TuneFrame ==
    UNCHANGED <<appVars, viewVars, mergeVars, maskVars, classVars, previewVars, logVars>>

\* update_tolerance without the upper limit of line 506
UpdateToleranceWith_NoUpper(e) ==
    /\ closing_pc = "open"
    /\ tolerance' = IF e.ok /\ 0 <= e.val THEN e.val ELSE tolerance
    /\ UNCHANGED <<object_tolerance, click_delay_ms, post_reroll_delay_ms,
                   image_poll_delay_ms>>
    /\ TuneFrame

\* update_tolerance, lines 504-509, for entry text e
UpdateToleranceWith(e) ==
    /\ closing_pc = "open"
    /\ tolerance' = IF e.ok /\ 0 <= e.val /\ e.val <= MaxTolerance THEN e.val ELSE tolerance
    /\ UNCHANGED <<object_tolerance, click_delay_ms, post_reroll_delay_ms,
                   image_poll_delay_ms>>
    /\ TuneFrame

UpdateTolerance == \E e \in ToleranceInputs : UpdateToleranceWith(e)

\* update_click_delay without the test of line 562
UpdateClickDelayWith_NoCheck(e) ==
    /\ closing_pc = "open"
    /\ click_delay_ms' = IF e.ok THEN e.val ELSE click_delay_ms
    /\ UNCHANGED <<tolerance, object_tolerance, post_reroll_delay_ms, image_poll_delay_ms>>
    /\ TuneFrame

\* update_click_delay, lines 560-565, for entry text e
UpdateClickDelayWith(e) ==
    /\ closing_pc = "open"
    /\ click_delay_ms' = IF e.ok /\ e.val >= 0 THEN e.val ELSE click_delay_ms
    /\ UNCHANGED <<tolerance, object_tolerance, post_reroll_delay_ms, image_poll_delay_ms>>
    /\ TuneFrame

UpdateClickDelay == \E e \in EntryInputs(MaxTune) : UpdateClickDelayWith(e)

\* update_post_reroll_delay, lines 579-584, for entry text e
UpdatePostRerollDelayWith(e) ==
    /\ closing_pc = "open"
    /\ post_reroll_delay_ms' = IF e.ok /\ e.val >= 0 THEN e.val ELSE post_reroll_delay_ms
    /\ UNCHANGED <<tolerance, object_tolerance, click_delay_ms, image_poll_delay_ms>>
    /\ TuneFrame

UpdatePostRerollDelay == \E e \in EntryInputs(MaxTune) : UpdatePostRerollDelayWith(e)

\* update_image_poll_delay, lines 598-603, for entry text e
UpdateImagePollDelayWith(e) ==
    /\ closing_pc = "open"
    /\ image_poll_delay_ms' = IF e.ok /\ e.val >= 0 THEN e.val ELSE image_poll_delay_ms
    /\ UNCHANGED <<tolerance, object_tolerance, click_delay_ms, post_reroll_delay_ms>>
    /\ TuneFrame

UpdateImagePollDelay == \E e \in EntryInputs(MaxTune) : UpdateImagePollDelayWith(e)

\* update_object_tolerance, lines 617-622, for entry text e
UpdateObjectToleranceWith(e) ==
    /\ closing_pc = "open"
    /\ object_tolerance' = IF e.ok /\ e.val >= 0 THEN e.val ELSE object_tolerance
    /\ UNCHANGED <<tolerance, click_delay_ms, post_reroll_delay_ms, image_poll_delay_ms>>
    /\ TuneFrame

UpdateObjectTolerance == \E e \in EntryInputs(MaxTune) : UpdateObjectToleranceWith(e)

\* The settings handlers of the presentation layer, from the constructed state.
SettingsNext ==
    \/ SelectQuality
    \/ UpdateTolerance
    \/ UpdateStopAt
    \/ UpdateMinObjects
    \/ UpdateClickDelay
    \/ UpdatePostRerollDelay
    \/ UpdateImagePollDelay
    \/ UpdateObjectTolerance

SettingsSpec == Init /\ [][SettingsNext]_vars

\* ------------------------------------------------------------ detect_and_classify
\* The rank table in the order the loop of line 977 walks it: each rank with
\* its reference color (spec.md: Rank).
RANKS == [i \in 1 .. NumRanks |-> [rank |-> i - 1, bgr |-> <<i - 1, 0, MaxChannel>>]]

\* The key of line 996: -RANK_ORDER[o['rank']]
SortKey(o) == 0 - RANK_ORDER[o.rank]

\* An insertion that puts x ahead of the elements of equal key
InsertSorted_BeforeEqual(s, x) ==
    LET k == Cardinality({i \in 1 .. Len(s) : SortKey(s[i]) < SortKey(x)})
    IN  SubSeq(s, 1, k) \o <<x>> \o SubSeq(s, k + 1, Len(s))

\* list.sort is stable: x goes behind the elements of s whose key is not
\* greater, so behind those of equal key that came before it
InsertSorted(s, x) ==
    LET k == Cardinality({i \in 1 .. Len(s) : SortKey(s[i]) <= SortKey(x)})
    IN  SubSeq(s, 1, k) \o <<x>> \o SubSeq(s, k + 1, Len(s))

\* detected.sort(key=lambda o: -RANK_ORDER[o['rank']]), line 996
RECURSIVE SortDetected(_)
SortDetected(q) ==
    IF q = <<>> THEN <<>>
    ELSE InsertSorted(SortDetected(SubSeq(q, 1, Len(q) - 1)), q[Len(q)])

\* lines 987-992: one object per merged rectangle, tagged with rank and color
Tagged(merged_rects, rank, bgr) ==
    [k \in 1 .. Len(merged_rects) |->
        [rank |-> rank, rect |-> merged_rects[k], cv2color |-> bgr]]

\* The rectangles found for the entries 1..i of RANKS, one list after the other.
RECURSIVE RectsUpTo(_)
RectsUpTo(i) == IF i = 0 THEN <<>> ELSE RectsUpTo(i - 1) \o c_rects[i]

\* What a step of detect_and_classify leaves alone.
ClassFrame ==
    UNCHANGED <<appVars, tuneVars, viewVars, mergeVars, maskVars, previewVars, logVars>>

\* the loop body with rects kept from one rank to the next
ClassifyRank_SharedRects ==
    /\ c_pc = "ranks"
    /\ c_detected' = c_detected \o
         Tagged(merge_rectangles(RectsUpTo(c_idx), object_tolerance),
                RANKS[c_idx].rank, RANKS[c_idx].bgr)
    /\ c_idx' = c_idx + 1
    /\ c_pc' = IF c_idx = NumRanks THEN "sort" ELSE "ranks"
    /\ UNCHANGED <<c_rects, c_result>>
    /\ ClassFrame

\* detect_and_classify, lines 977-992: one iteration of the loop over RANKS;
\* c_rects[c_idx] is the list of line 983 (mask, closing, contours, bounding
\* rectangles), merged with object_tolerance and appended to detected
ClassifyRank ==
    /\ c_pc = "ranks"
    /\ c_detected' = c_detected \o
         Tagged(merge_rectangles(c_rects[c_idx], object_tolerance),
                RANKS[c_idx].rank, RANKS[c_idx].bgr)
    /\ c_idx' = c_idx + 1
    /\ c_pc' = IF c_idx = NumRanks THEN "sort" ELSE "ranks"
    /\ UNCHANGED <<c_rects, c_result>>
    /\ ClassFrame

\* detect_and_classify, lines 995-997: the sort and the return
ClassifySort ==
    /\ c_pc = "sort"
    /\ c_result' = SortDetected(c_detected)
    /\ c_pc' = "done"
    /\ UNCHANGED <<c_rects, c_idx, c_detected>>
    /\ ClassFrame

\* The lists of rectangles found for one rank.
RectLists == UNION {[1 .. n -> RowRects] : n \in 0 .. MaxRects}

\* detect_and_classify called on a frame whose masks give any lists of
\* rectangles, under any object tolerance.
ClassInit ==
    /\ AppInit /\ ViewInit /\ MergeIdle /\ MaskIdle
    /\ PreviewIdle /\ LogIdle
    /\ tolerance = 10
    /\ object_tolerance \in 0 .. MaxDist
    /\ click_delay_ms = 50
    /\ post_reroll_delay_ms = 500
    /\ image_poll_delay_ms = 10
    /\ c_rects \in [1 .. NumRanks -> RectLists]
    /\ c_pc = "ranks"
    /\ c_idx = 1
    /\ c_detected = <<>>
    /\ c_result = <<>>

ClassNext == ClassifyRank \/ ClassifySort

ClassSpec == ClassInit /\ [][ClassNext]_vars

\* ------------------------------------------------------------ injection failure
\* click_at, lines 1115-1120, called at lines 1184 and 1191: a call of the
\* input-injection collaborator raises.  click_at and reroll_loop have no
\* try/except, so the exception leaves reroll_loop and the thread ends: lines
\* 1227-1244 are not executed and nothing else is written.
SeqClickRaises(t) ==
    /\ rl_pc[t] \in {"click1", "click2"}
    /\ SeqEnd(t)
    /\ UNCHANGED <<rl_timer, stopped_from_condition, message_var>>
    /\ SeqFrame

\* Run control with a fallible input-injection collaborator.
InjectNext ==
    \/ Next
    \/ \E t \in Threads : SeqClickRaises(t)

InjectSpec == Init /\ [][InjectNext]_vars

\* ------------------------------------------------------------ preview threads
\* What start_preview and preview_loop leave alone besides the variables they name.
PreviewFrame ==
    UNCHANGED <<cfgVars, setVars, runVars, ipVars, rlVars, evVars, start_pc, closing_pc,
                last_detected_objs, rank_counts, written_by, log_pc, log_objs, log_counts,
                tuneVars, mergeVars, maskVars, classVars, logVars>>

\* start_preview, whole handler (lines 905-917): without a region a message;
\* with the preview active the flag is reset and the thread object dropped,
\* the thread is neither joined nor told anything else; otherwise the flag is
\* set and a new preview_loop thread is created and started
TogglePreview ==
    /\ closing_pc = "open"
    /\ IF ~game_area
       THEN /\ message_var' = "Please select area first to start preview."
            /\ UNCHANGED <<preview_active, previewVars>>
       ELSE IF preview_active
       THEN /\ preview_active' = FALSE
            /\ preview_thread' = None
            /\ UNCHANGED <<pv_pc, message_var>>
       ELSE /\ FreeThreads(pv_pc) # {}
            /\ preview_active' = TRUE
            /\ preview_thread' = NewThread(pv_pc)
            /\ pv_pc' = [pv_pc EXCEPT ![NewThread(pv_pc)] = "test"]
            /\ UNCHANGED message_var
    /\ UNCHANGED after_queue
    /\ PreviewFrame

\* preview_loop, line 933: the loop condition; when it is false the thread
\* cleans up (lines 961-962) and ends
PreviewTest(t) ==
    /\ pv_pc[t] = "test"
    /\ pv_pc' = [pv_pc EXCEPT ![t] = IF preview_active THEN "body" ELSE "dead"]
    /\ UNCHANGED <<preview_thread, preview_active, after_queue, message_var>>
    /\ PreviewFrame

\* preview_loop, lines 934-959: one iteration.  Without a region or a frame
\* the loop condition is next; otherwise the frame is classified, the result
\* scheduled with root.after (which raises once the root window is destroyed)
\* and shown; the key q ends the preview from inside the loop.
PreviewIterate(t) ==
    /\ pv_pc[t] = "body"
    /\ \E frame_ok, q \in BOOLEAN :
         IF ~game_area \/ ~frame_ok
         THEN /\ ~q
              /\ pv_pc' = [pv_pc EXCEPT ![t] = "test"]
              /\ UNCHANGED <<preview_active, after_queue>>
         ELSE IF closing_pc = "closed"
         THEN /\ ~q
              /\ pv_pc' = [pv_pc EXCEPT ![t] = "dead"]
              /\ UNCHANGED <<preview_active, after_queue>>
         ELSE /\ Len(after_queue) < MaxQueue
              /\ \E objs \in Detections : Schedule(objs, "preview")
              /\ preview_active' = IF q THEN FALSE ELSE preview_active
              /\ pv_pc' = [pv_pc EXCEPT ![t] = IF q THEN "dead" ELSE "test"]
    /\ UNCHANGED <<preview_thread, message_var>>
    /\ PreviewFrame

\* The preview from start-up on: the region is selected, the preview toggled,
\* its threads run and the presentation layer serves their callbacks.
PreviewNext ==
    \/ SelectArea
    \/ TogglePreview
    \/ \E t \in Threads : PreviewTest(t)
    \/ \E t \in Threads : PreviewIterate(t)
    \/ UpdateRankCountsGui

PreviewSpec == Init /\ [][PreviewNext]_vars

\* ------------------------------------------------------------ log buffer
\* What log_event and dump_logs leave alone besides the variables they name.
LogFrame ==
    UNCHANGED <<cfgVars, setVars, runVars, ipVars, rlVars, evVars, start_pc, closing_pc,
                tuneVars, viewVars, mergeVars, maskVars, classVars, previewVars>>

\* log_event, lines 383-397: nothing for an empty object list, else one line
\* is formatted and appended to the buffer
log_event(buffer, objects, line) ==
    IF objects = <<>> THEN buffer ELSE Append(buffer, line)

\* reroll_loop, lines 1161-1181, with logging enabled: a cycle of a Sequencer
\* inside its loop calls log_event for a non-empty object list
SeqLogEvent ==
    /\ \E t \in Threads : IsAlive(rl_pc[t]) /\ rl_pc[t] # "exit"
    /\ log_next <= MaxRecords
    /\ \E objs \in Detections :
         /\ objs # <<>>
         /\ log_buffer' = log_event(log_buffer, objs, log_next)
    /\ log_next' = log_next + 1
    /\ UNCHANGED <<log_files, dump_pc, dump_idx, message_var>>
    /\ LogFrame

\* dump_logs, lines 411-415: with an empty buffer a message and return; else
\* the file named after the current second is opened for writing, which
\* truncates the file of an earlier dump within the same second
DumpOpen ==
    /\ closing_pc = "open"
    /\ dump_pc = "idle"
    /\ IF log_buffer = <<>>
       THEN /\ message_var' = "No logs to write."
            /\ UNCHANGED <<log_files, dump_pc, dump_idx>>
       ELSE /\ \E same_second \in BOOLEAN :
                log_files' = IF same_second /\ log_files # <<>>
                             THEN [log_files EXCEPT ![Len(log_files)] = <<>>]
                             ELSE Append(log_files, <<>>)
            /\ dump_pc' = "writing"
            /\ dump_idx' = 1
            /\ UNCHANGED message_var
    /\ UNCHANGED <<log_buffer, log_next>>
    /\ LogFrame

\* dump_logs, lines 416-417: one step of the list iterator, which reads the
\* list as it is now; at its end the file is closed
DumpWrite ==
    /\ dump_pc = "writing"
    /\ IF dump_idx <= Len(log_buffer)
       THEN /\ log_files' = [log_files EXCEPT
                               ![Len(log_files)] = Append(@, log_buffer[dump_idx])]
            /\ dump_idx' = dump_idx + 1
            /\ UNCHANGED dump_pc
       ELSE /\ dump_pc' = "written"
            /\ UNCHANGED <<log_files, dump_idx>>
    /\ UNCHANGED <<log_buffer, log_next, message_var>>
    /\ LogFrame

\* dump_logs, lines 418-419: the message and log_buffer.clear()
DumpClear ==
    /\ dump_pc = "written"
    /\ message_var' = "Logs written"
    /\ log_buffer' = <<>>
    /\ dump_pc' = "idle"
    /\ dump_idx' = 0
    /\ UNCHANGED <<log_files, log_next>>
    /\ LogFrame

\* A run in progress with logging enabled and the operator at the dump button.
LogNext ==
    \/ SeqLogEvent
    \/ DumpOpen
    \/ DumpWrite
    \/ DumpClear

LogSpec == RunInit /\ [][LogNext]_vars

\* ------------------------------------------------------------ steps named by the claims
\* Thread t issues the first (chisel) click in this step.
ChiselClick(t) == rl_pc[t] = "click1" /\ rl_pc'[t] = "sleep1"
\* Thread t issues the second (buy) click in this step.
BuyClick(t) == rl_pc[t] = "click2" /\ rl_pc'[t] = "sleep2"
\* Thread t is inside its loop (lines 1148-1225).
InLoop(t) == rl_pc[t] \notin {"unborn", "dead", "exit"}
\* A Sequencer, resp. Poller, thread is created in this step.
SequencerCreated == \E t \in Threads : ~IsAlive(rl_pc[t]) /\ IsAlive(rl_pc'[t])
PollerCreated == \E t \in Threads : ~IsAlive(ip_pc[t]) /\ IsAlive(ip_pc'[t])
AliveSequencers == {t \in Threads : IsAlive(rl_pc[t])}
AlivePollers == {t \in Threads : IsAlive(ip_pc[t])}
PreconditionMessages ==
    {"Please select area first.", "Please set Chisel Button first.",
     "Please set Buy Button first.", "Please enter a Game Window Title.",
     "Error: Game window not found."}

\* ------------------------------------------------------------ C1
\* C1 as stated: while the CancellationSignal is set (set before the step and
\* not cleared by it), no Sequencer issues a first (chisel) click.
C1_NoChiselClickWhileSet ==
    [][(stop_reroll_event /\ stop_reroll_event')
          => \A t \in Threads : ~ChiselClick(t)]_vars

\* C1 as amended: a Sequencer at the loop condition (line 1148) or at the
\* pre-cycle checkpoint (line 1156) with the signal set leaves the loop without
\* clicking, and the position of the first click is entered only from the
\* pre-cycle checkpoint in a step that reads the signal clear.
C1_NoCyclePastCheckpoint ==
    [][\A t \in Threads :
          /\ (stop_reroll_event /\ rl_pc[t] \in {"loop", "wait0"})
                => rl_pc'[t] \in {rl_pc[t], "exit"}
          /\ (rl_pc'[t] = "click1" /\ rl_pc[t] # "click1")
                => (rl_pc[t] = "wait0" /\ ~stop_reroll_event)]_vars

\* The signal is set and a Sequencer has left its loop at the pre-cycle checkpoint.
C1_Witness ==
    \E t \in Threads :
        stop_reroll_event /\ rl_pc[t] = "exit" /\ rl_left_at[t] = "wait0"

\* ------------------------------------------------------------ C3
\* C3: a start_running_async call with a failed precondition sets a
\* precondition message, returns without reaching the thread-creating steps
\* and leaves the running flag, the status, the CancellationSignal and both
\* threads alone; the call goes on to start a run only when the region, both
\* points and the title are set and the window was reported as existing.
C3_FailedStartChangesNothing ==
    [][StartBegin =>
          /\ (~(game_area /\ chisel_button_pos /\ buy_button_pos /\ game_window_title # "")
               \/ message_var' = "Error: Game window not found.")
                => /\ message_var' \in PreconditionMessages
                   /\ start_pc' = "idle"
                   /\ UNCHANGED <<running, status_var, stop_reroll_event,
                                  image_processor_thread, reroll_loop_thread,
                                  ip_pc, rl_pc, ip_stop_event>>
          /\ start_pc' = "clear"
                => /\ game_area /\ chisel_button_pos /\ buy_button_pos
                   /\ game_window_title # ""
                   /\ message_var' = "Game window activated. Starting reroll."
                   /\ running']_vars

\* A start was refused for the buy point although region and chisel point are set.
C3_Witness ==
    /\ message_var = "Please set Buy Button first."
    /\ game_area /\ chisel_button_pos /\ ~buy_button_pos
    /\ ~running /\ start_pc = "idle"

\* ------------------------------------------------------------ C4
\* C4: at most one Poller thread and at most one Sequencer thread is alive,
\* and a thread of either kind is created only when the thread the
\* application refers to is absent or not alive.
C4_AtMostOneOfEachThread ==
    /\ [](Cardinality(AlivePollers) <= 1 /\ Cardinality(AliveSequencers) <= 1)
    /\ [][SequencerCreated =>
            (reroll_loop_thread = None \/ ~IsAlive(rl_pc[reroll_loop_thread]))]_vars
    /\ [][PollerCreated =>
            (image_processor_thread = None \/ ~IsAlive(ip_pc[image_processor_thread]))]_vars

\* A restart has reached the Sequencer step with both previous threads alive.
C4_Witness ==
    /\ start_pc = "seq"
    /\ reroll_loop_thread # None /\ IsAlive(rl_pc[reroll_loop_thread])
    /\ image_processor_thread # None /\ IsAlive(ip_pc[image_processor_thread])

\* ------------------------------------------------------------ C5
\* C5: in a successful start the CancellationSignal is cleared before either
\* thread is started: a signal left set by the previous run exists only before
\* the clearing step, and no thread is created while one is left.
C5_ClearedBeforeThreadsStart ==
    /\ [](stale => start_pc = "clear")
    /\ [][(SequencerCreated \/ PollerCreated) => (~stale /\ start_pc \in {"poller", "seq"})]_vars

\* A successful start is under way with the signal left set by the previous
\* run, whose Sequencer has ended: this start will create the next Sequencer.
C5_Witness ==
    /\ stale /\ stop_reroll_event /\ start_pc = "clear"
    /\ reroll_loop_thread # None /\ ~IsAlive(rl_pc[reroll_loop_thread])

\* ------------------------------------------------------------ C6
\* C6: the second (buy) click is issued only by a Sequencer that passed the
\* checkpoint after the first click's delay with the signal clear, and the
\* post-reroll delay is begun only by one that passed the checkpoint after the
\* second click's delay with the signal clear; with the signal set, either
\* checkpoint leaves the loop.
C6_InFlightSequenceStops ==
    [][\A t \in Threads :
          /\ (stop_reroll_event /\ rl_pc[t] \in {"wait1", "wait2"})
                => rl_pc'[t] \in {rl_pc[t], "exit"}
          /\ (rl_pc'[t] = "click2" /\ rl_pc[t] # "click2")
                => (rl_pc[t] = "wait1" /\ ~stop_reroll_event)
          /\ (rl_pc'[t] = "sleep3" /\ rl_pc[t] # "sleep3")
                => (rl_pc[t] = "wait2" /\ ~stop_reroll_event)
          /\ BuyClick(t) => rl_pc[t] = "click2"]_vars

\* The signal is set and a Sequencer has left its loop at the checkpoint after
\* the first click's delay, its second click not issued.
C6_Witness ==
    \E t \in Threads :
        stop_reroll_event /\ rl_pc[t] = "exit" /\ rl_left_at[t] = "wait1"

\* ------------------------------------------------------------ C2
\* C2: whenever a stop request has been made (running flag false, signal set)
\* while a Sequencer is in its loop, that Sequencer eventually leaves the
\* loop, whatever the operator does afterwards.
C2_StopEventuallyExits ==
    \A t \in Threads :
        (~running /\ stop_reroll_event /\ InLoop(t)) ~> ~InLoop(t)

\* ------------------------------------------------------------ C7
\* C7: every delay wait of the Sequencer is interruptible: whenever the signal
\* is set while a Sequencer is inside one of its three delays, the Sequencer
\* can leave the delay at once, whether or not the delay has elapsed.
C7_DelaysAreInterruptible ==
    \A t \in Threads :
        (rl_pc[t] \in {"sleep1", "sleep2", "sleep3"} /\ stop_reroll_event)
            => ENABLED SeqStep(t)

\* ------------------------------------------------------------ C8
\* The counts the stop condition is stated over, taken from the object list.
TopCount == Cardinality({i \in DOMAIN detected_objs : detected_objs[i] = SS})
Eligible ==
    Cardinality({i \in DOMAIN detected_objs :
                    RANK_ORDER[detected_objs[i]] >= RANK_ORDER[min_quality]})

\* C8: for all rank counts and settings the stop condition, as the Sequencer
\* computes it from the snapshot and as the Poller evaluates it, equals
\* (stop_at_ss > 0 and topCount >= stop_at_ss) or (eligible >= min_objects);
\* it is true whenever stop_at_ss > 0 and topCount >= stop_at_ss, and with
\* stop_at_ss = 0 it is the eligible clause alone.
C8_StopConditionFormula ==
    LET code == StoppedFromCondition(
                    min_objects, stop_at_ss,
                    FilteredCount(current_rank_counts, RANK_ORDER[min_quality]),
                    current_rank_counts[SS])
    IN  /\ code = ((stop_at_ss > 0 /\ TopCount >= stop_at_ss) \/ Eligible >= min_objects)
        /\ code = StopCondition(current_rank_counts, min_quality, min_objects, stop_at_ss)
        /\ (stop_at_ss > 0 /\ TopCount >= stop_at_ss) => code
        /\ stop_at_ss = 0 => (code = (Eligible >= min_objects))

\* The Poller has stopped a run on the top-count clause alone, an object of
\* another rank being present and the eligible count short of min_objects.
C8_Witness ==
    /\ stop_at_ss > 0 /\ TopCount >= stop_at_ss
    /\ Eligible < min_objects
    /\ Len(detected_objs) > TopCount
    /\ stop_reroll_event /\ running
    /\ \E p \in Threads : ip_pc[p] = "stopping"

\* ------------------------------------------------------------ C9
\* C9: at every exit of the sequencer loop the reported flag equals the stop
\* condition evaluated on the snapshot read at exit.
C9_ReportedFlagFromFinalSnapshot ==
    [][\A t \in Threads :
          (rl_pc[t] = "exit" /\ rl_pc'[t] = "dead")
            => stopped_from_condition' =
                 IF StopCondition(current_rank_counts, min_quality, min_objects, stop_at_ss)
                 THEN "yes" ELSE "no"]_vars

\* ------------------------------------------------------------ C10
\* The Poller evaluates the stop condition in this step.
PollerEvaluates == \E p \in Threads : ip_pc[p] = "eval" /\ ip_pc'[p] # "eval"
\* Once the signal is set a Sequencer passes no checkpoint, and a Sequencer
\* that has left its loop only ends.
NoClickAfterCheckpoint ==
    \A t \in Threads :
        /\ (stop_reroll_event /\ rl_pc[t] \in {"loop", "wait0", "wait1", "wait2"})
              => rl_pc'[t] \in {rl_pc[t], "exit"}
        /\ rl_pc[t] = "exit" => rl_pc'[t] \in {"exit", "dead"}

\* C10 as stated: with min_objects = 2, a Poller evaluation of a snapshot with
\* 1 eligible detection finds the stop condition false and does not set the
\* signal; an evaluation of one with 2 eligible detections sets it, and the
\* Sequencer performs no click after the checkpoints of the cycle it is in.
C10_ScenarioC ==
    [][/\ (PollerEvaluates /\ min_objects = 2 /\ Eligible = 1)
            => /\ ~StopCondition(current_rank_counts, min_quality, min_objects, stop_at_ss)
               /\ UNCHANGED stop_reroll_event
       /\ (PollerEvaluates /\ min_objects = 2 /\ Eligible >= 2) => stop_reroll_event'
       /\ NoClickAfterCheckpoint]_vars

\* C10 as amended: the same, the first part for snapshots that do not satisfy
\* the top-count clause (stop_at_ss = 0, or fewer than stop_at_ss objects of
\* the highest rank).
C10_ScenarioCTopClauseUnmet ==
    [][/\ (PollerEvaluates /\ min_objects = 2 /\ Eligible = 1
              /\ ~(stop_at_ss > 0 /\ TopCount >= stop_at_ss))
            => /\ ~StopCondition(current_rank_counts, min_quality, min_objects, stop_at_ss)
               /\ UNCHANGED stop_reroll_event
       /\ (PollerEvaluates /\ min_objects = 2 /\ Eligible >= 2) => stop_reroll_event'
       /\ NoClickAfterCheckpoint]_vars

\* With min_objects = 2 the Poller has set the signal on 2 eligible detections
\* and the Sequencer has left its loop at a checkpoint of the cycle it was in.
C10_Witness ==
    /\ min_objects = 2 /\ Eligible = 2
    /\ stop_reroll_event /\ running
    /\ \E p \in Threads : ip_pc[p] = "stopping"
    /\ \E t \in Threads : rl_pc[t] = "exit" /\ rl_left_at[t] \in {"wait1", "wait2"}

\* ------------------------------------------------------------ C11
\* C11: whenever the Sequencer has read the rank counts together with the
\* cached detected-object list (the pair handed to log_event), the sum of the
\* counts equals the length of the object list.
C11_CountsMatchObjectList ==
    log_pc = "logged" => SumOver(log_counts, Ranks) = Len(log_objs)

\* ------------------------------------------------------------ C12
\* C12: the rank counts and the cached detected-object list of the
\* application hold only detection results produced by the Detection Poller.
C12_OnlyPollerWrites ==
    written_by \in {"init", "poller"}
\* ------------------------------------------------------------ C13
\* The set of the elements of a sequence.
Range(q) == {q[i] : i \in DOMAIN q}
\* The gap between two intervals [a, a + la] and [b, b + lb]: 0 when they
\* overlap or touch.
Gap(a, la, b, lb) == Max2(0, Max2(b - (a + la), a - (b + lb)))
\* The smallest rectangle containing r1 and r2.
Envelope(r1, r2) ==
    LET x == Min2(r1[1], r2[1])
        y == Min2(r1[2], r2[2])
    IN  <<x, y, Max2(r1[1] + r1[3], r2[1] + r2[3]) - x,
                Max2(r1[2] + r1[4], r2[2] + r2[4]) - y>>

\* C13: for a pair of rectangles merge_rectangles returns the single envelope
\* iff the edge-to-edge distance (the hypotenuse of the x-gap and the y-gap)
\* is at most max_distance, equality included, and the two rectangles
\* otherwise; (0,0,4,4) and (5,0,4,4) give (0,0,9,4) for max_distance 1 and
\* stay two for max_distance 0.
C13_PairMergesIffWithinDistance ==
    (m_pc # "args" /\ Len(m_rects) = 2) =>
        LET r1 == m_rects[1]
            r2 == m_rects[2]
            gx == Gap(r1[1], r1[3], r2[1], r2[3])
            gy == Gap(r1[2], r1[4], r2[2], r2[4])
            close == gx * gx + gy * gy <= m_dist * m_dist
        IN  /\ close => m_out = <<Envelope(r1, r2)>>
            /\ ~close => m_out = m_rects
            /\ (m_rects = ScenarioB /\ m_dist = 1) => m_out = << <<0, 0, 9, 4>> >>
            /\ (m_rects = ScenarioB /\ m_dist = 0) => m_out = ScenarioB

\* Scenario B has been merged with max_distance 1 into (0,0,9,4).
C13_Witness ==
    /\ m_pc = "merged" /\ m_rects = ScenarioB /\ m_dist = 1
    /\ m_out = << <<0, 0, 9, 4>> >>

\* ------------------------------------------------------------ C14
\* C14: merge_rectangles applied to its own result, with the same
\* max_distance, returns the same rectangles.
C14_MergeIdempotent ==
    m_pc = "again" => Range(m_again) = Range(m_out)

\* ------------------------------------------------------------ C15
\* C15: merge_rectangles returns the same set of rectangles for every order
\* of its input list.
C15_MergeOrderIndependent ==
    m_pc = "permuted" => Range(m_again) = Range(m_out)
\* ------------------------------------------------------------ C16
\* The number of matched pixels of a mask.
Matched(mask) == Cardinality({i \in DOMAIN mask : mask[i] = MaskOn})

\* C16: for one frame and one reference color and tolerances t1 <= t2, every
\* pixel matched in the mask for t1 is matched in the mask for t2, and the
\* matched pixel count for t2 is not below that for t1.
C16_ToleranceMonotone ==
    k_pc = "two" =>
        /\ k_tol[1] <= k_tol[2]
        /\ \A i \in DOMAIN k_frame :
              k_mask[1][i] = MaskOn => k_mask[2][i] = MaskOn
        /\ Matched(k_mask[1]) <= Matched(k_mask[2])

\* Both masks are computed, the larger tolerance matching a pixel the smaller
\* one did not, besides one that both match.
C16_Witness ==
    /\ k_pc = "two" /\ k_tol[1] < k_tol[2]
    /\ 0 < Matched(k_mask[1])
    /\ Matched(k_mask[1]) < Matched(k_mask[2])
C18_ShutdownTerminates ==
    (closing_pc = "waiting") ~> (closing_pc = "closed")

\* The window is destroyed while the Poller, told to stop, is still polling.
C18_Witness ==
    /\ closing_pc = "closed"
    /\ \E t \in Threads : ip_pc[t] \in {"poll", "eval"} /\ ip_stop_event[t]
\* ------------------------------------------------------------ C19
\* The settings other than the named one are left alone.
OthersUnchanged(own) ==
    /\ own # "tolerance" => UNCHANGED tolerance
    /\ own # "stop_at_ss" => UNCHANGED stop_at_ss
    /\ own # "min_objects" => UNCHANGED min_objects
    /\ own # "click_delay_ms" => UNCHANGED click_delay_ms
    /\ own # "post_reroll_delay_ms" => UNCHANGED post_reroll_delay_ms
    /\ own # "image_poll_delay_ms" => UNCHANGED image_poll_delay_ms
    /\ own # "object_tolerance" => UNCHANGED object_tolerance
    /\ UNCHANGED min_quality
\* Entry text e is an integer of the range lo..hi (hi = -1: no upper limit).
ValidEntry(e, lo, hi) == e.ok /\ e.val >= lo /\ (hi = -1 \/ e.val <= hi)
\* The value a setting has after an update with entry text e.
Updated(e, lo, hi, old) == IF ValidEntry(e, lo, hi) THEN e.val ELSE old

\* C19: each settings update with an input that is no integer or is outside
\* the field's range leaves every setting as it was; with a valid input it
\* sets the addressed setting to the input and leaves the others alone.
C19_BadInputDiscarded ==
    [][/\ \A e \in ToleranceInputs : UpdateToleranceWith(e)
            => (tolerance' = Updated(e, 0, 255, tolerance) /\ OthersUnchanged("tolerance"))
       /\ \A e \in EntryInputs(MaxStopAt) : UpdateStopAtWith(e)
            => (stop_at_ss' = Updated(e, 0, -1, stop_at_ss) /\ OthersUnchanged("stop_at_ss"))
       /\ \A e \in EntryInputs(MaxMinObjects) : UpdateMinObjectsWith(e)
            => (min_objects' = Updated(e, 1, -1, min_objects)
                /\ OthersUnchanged("min_objects"))
       /\ \A e \in EntryInputs(MaxTune) :
            /\ UpdateClickDelayWith(e)
                => (click_delay_ms' = Updated(e, 0, -1, click_delay_ms)
                    /\ OthersUnchanged("click_delay_ms"))
            /\ UpdatePostRerollDelayWith(e)
                => (post_reroll_delay_ms' = Updated(e, 0, -1, post_reroll_delay_ms)
                    /\ OthersUnchanged("post_reroll_delay_ms"))
            /\ UpdateImagePollDelayWith(e)
                => (image_poll_delay_ms' = Updated(e, 0, -1, image_poll_delay_ms)
                    /\ OthersUnchanged("image_poll_delay_ms"))
            /\ UpdateObjectToleranceWith(e)
                => (object_tolerance' = Updated(e, 0, -1, object_tolerance)
                    /\ OthersUnchanged("object_tolerance"))]_vars

\* The tolerance and the click delay have been set to accepted values, every
\* other setting being as constructed.
C19_Witness ==
    /\ tolerance = MaxTolerance /\ click_delay_ms = 0
    /\ object_tolerance = 10 /\ post_reroll_delay_ms = 500 /\ image_poll_delay_ms = 10
    /\ min_objects = 1 /\ stop_at_ss = 0 /\ min_quality = F

\* ------------------------------------------------------------ C20
\* C20: in every state reached by settings updates with arbitrary inputs the
\* settings are in their ranges: 0 <= tolerance <= 255, object_tolerance,
\* click delay, post-reroll delay and poll delay >= 0, min_objects >= 1,
\* stop_at_ss >= 0, min_quality a defined rank.
C20_SettingsInRange ==
    /\ 0 <= tolerance /\ tolerance <= 255
    /\ object_tolerance >= 0
    /\ click_delay_ms >= 0
    /\ post_reroll_delay_ms >= 0
    /\ image_poll_delay_ms >= 0
    /\ min_objects >= 1
    /\ stop_at_ss >= 0
    /\ min_quality \in Ranks

\* Every setting has been moved to an end of its range.
C20_Witness ==
    /\ tolerance = 255 /\ object_tolerance = 0
    /\ click_delay_ms = 0 /\ post_reroll_delay_ms = 0 /\ image_poll_delay_ms = 0
    /\ min_objects = MaxMinObjects /\ stop_at_ss = MaxStopAt /\ min_quality = SS
\* ------------------------------------------------------------ C21
\* C21: a set CancellationSignal stays set until a successful start clears
\* it: the only step that takes stop_reroll_event from set to clear is line
\* 827 of start_running_async, reached after every precondition passed;
\* failed starts, stops, settings updates, Poller and Sequencer steps leave a
\* set signal set, and a stop with the signal already set leaves it set.
C21_SetUntilStartClears ==
    [][/\ (stop_reroll_event /\ ~stop_reroll_event')
            => (start_pc = "clear" /\ start_pc' = "poller")
       /\ (start_pc # "clear" /\ start_pc' = "clear")
            => (game_area /\ chisel_button_pos /\ buy_button_pos
                /\ game_window_title # "")
       /\ (stop_reroll_event /\ (KeyStop \/ CloseBegin)) => stop_reroll_event']_vars

\* After a run, a start was refused (window not found) with the signal set.
C21_Witness ==
    /\ stop_reroll_event
    /\ message_var = "Error: Game window not found."
    /\ \E t \in Threads : rl_pc[t] = "dead"
\* ------------------------------------------------------------ C22
\* Thread t leaves its loop in this step: it was inside lines 1148-1225 and is
\* at line 1227 or gone after the step.
LeavesLoop(t) == InLoop(t) /\ rl_pc'[t] \in {"exit", "dead"}
\* The positions at which reroll_loop tests the signal (lines 1148, 1156, 1188, 1195).
Checkpoints == {"loop", "wait0", "wait1", "wait2"}

\* C22 as stated: the step in which a Sequencer leaves its loop is a
\* checkpoint that read the CancellationSignal as set; with the signal clear
\* no Sequencer leaves its loop.
C22_LoopEndsOnlyOnSignal ==
    [][\A t \in Threads :
          LeavesLoop(t) => (rl_pc[t] \in Checkpoints /\ stop_reroll_event)]_vars
\* ------------------------------------------------------------ C23
\* Positions of a Sequencer by the last click of its current cycle: none yet,
\* the first (chisel) click, the second (buy) click.
CycleStart == {"loop", "wait0", "click1"}
AfterChisel == {"sleep1", "wait1", "click2"}
AfterBuy == {"sleep2", "wait2", "sleep3", "counts"}
\* Thread t reads the snapshot and posts the progress message in this step.
SnapshotRead(t) == rl_pc[t] = "counts" /\ rl_pc'[t] = "loop"

Close(i, j) ==
    LET r1 == m_rects[i]
        r2 == m_rects[j]
        gx == Gap(r1[1], r1[3], r2[1], r2[3])
        gy == Gap(r1[2], r1[4], r2[2], r2[4])
    IN  gx * gx + gy * gy <= m_dist * m_dist
\* Rectangle r lies inside rectangle o.
Contains(o, r) ==
    /\ o[1] <= r[1] /\ o[2] <= r[2]
    /\ r[1] + r[3] <= o[1] + o[3] /\ r[2] + r[4] <= o[2] + o[4]
\* A, B, C in input order: A-B and B-C within max_distance, A-C not.
IsChain == Len(m_rects) = 3 /\ Close(1, 2) /\ Close(2, 3) /\ ~Close(1, 3)

\* C24: for a chain A, B, C in input order (A-B and B-C within max_distance,
\* A-C further apart) merge_rectangles returns one rectangle covering all three.
C24_ChainMergedTransitively ==
    (m_pc = "merged" /\ IsChain) =>
        /\ Len(m_out) = 1
        /\ \A i \in 1 .. 3 : Contains(m_out[1], m_rects[i])

\* ------------------------------------------------------------ C25
\* Least and greatest element of a non-empty set of integers.
MinOf(S) == CHOOSE m \in S : \A e \in S : m <= e
MaxOf(S) == CHOOSE m \in S : \A e \in S : m >= e
\* The bounding envelope of the rectangles of the argument list with indices in G.
EnvelopeOf(G) ==
    LET x == MinOf({m_rects[i][1] : i \in G})
        y == MinOf({m_rects[i][2] : i \in G})
    IN  <<x, y, MaxOf({m_rects[i][1] + m_rects[i][3] : i \in G}) - x,
                MaxOf({m_rects[i][2] + m_rects[i][4] : i \in G}) - y>>
\* Rectangle i starts a group: no starting rectangle before it is within
\* max_distance of it.
RECURSIVE StartsGroup(_)
StartsGroup(i) == \A k \in 1 .. (i - 1) : StartsGroup(k) => ~Close(k, i)
Starters == {i \in 1 .. Len(m_rects) : StartsGroup(i)}
\* The group of starting rectangle i: itself and the later rectangles within
\* max_distance of it that no earlier group has taken.
GroupOf(i) ==
    {i} \cup {j \in (i + 1) .. Len(m_rects) :
                Close(i, j) /\ \A k \in 1 .. (i - 1) : StartsGroup(k) => ~Close(k, j)}
\* The k-th starting rectangle in input order.
StarterAt(k) ==
    CHOOSE i \in Starters : Cardinality({s \in Starters : s <= i}) = k

\* C25: merge_rectangles is one left-to-right greedy pass: each unconsumed
\* rectangle in input order starts a group, a later unconsumed rectangle is
\* folded into it iff it is within max_distance of the group's starting
\* rectangle (not of the grown envelope, not of earlier folded members), and
\* the result lists the groups' envelopes in the order of their starters.
C25_SinglePassFromStarter ==
    m_pc = "merged" =>
        m_out = [k \in 1 .. Cardinality(Starters) |-> EnvelopeOf(GroupOf(StarterAt(k)))]

\* A chain of three has been merged: the third rectangle, not within
\* max_distance of the first, is a group of its own next to the grown envelope.
C25_Witness ==
    /\ m_pc = "merged" /\ IsChain
    /\ m_out = <<Envelope(m_rects[1], m_rects[2]), m_rects[3]>>
    /\ m_rects[1][2] # m_rects[3][2]

\* ------------------------------------------------------------ C26
\* The assignments of the input rectangles to the output rectangles under
\* which every output rectangle has a member.
Groupings ==
    {g \in [1 .. Len(m_rects) -> 1 .. Len(m_out)] :
        \A k \in 1 .. Len(m_out) : \E i \in 1 .. Len(m_rects) : g[i] = k}

\* C26: the input rectangles fall into groups, one output rectangle per group,
\* each the exact bounding envelope of its group; every input rectangle lies
\* in an output rectangle, the output is no longer than the input, and an
\* empty input gives an empty output.
C26_OneEnvelopePerGroup ==
    m_pc = "merged" =>
        /\ \E g \in Groupings :
              \A k \in 1 .. Len(m_out) :
                  m_out[k] = EnvelopeOf({i \in 1 .. Len(m_rects) : g[i] = k})
        /\ \A i \in 1 .. Len(m_rects) : \E k \in 1 .. Len(m_out) : Contains(m_out[k], m_rects[i])
        /\ Len(m_out) <= Len(m_rects)
        /\ m_rects = <<>> => m_out = <<>>

\* Three rectangles of the grid have been merged into two groups, one of
\* them an envelope larger than each of its two members.
C26_Witness ==
    /\ m_pc = "merged" /\ Len(m_rects) = 3 /\ Len(m_out) = 2
    /\ \E k \in 1 .. 2 : m_out[k][3] = 2 /\ m_out[k][4] = 2
\* ------------------------------------------------------------ C27
\* C27: rank_mask marks a pixel (value 255, else 0) iff on each of the three
\* channels the pixel value lies within tolerance of the reference color's
\* value, for channel values and tolerances over the whole range 0..255: one
\* channel further away unmarks the pixel however close the others are, and
\* three channels each at the tolerance mark it although their sum exceeds it.
C27_PerChannelAnd ==
    k_pc # "args" =>
        \A i \in DOMAIN k_frame :
            /\ k_mask[1][i] \in {0, 255}
            /\ k_mask[1][i] = 255 <=>
                 \A c \in 1 .. 3 :
                    /\ k_color[c] - k_tol[1] <= k_frame[i][c]
                    /\ k_frame[i][c] <= k_color[c] + k_tol[1]

\* A pixel is marked whose three channels are each 1 away from the reference
\* color with tolerance 1, at the upper end of the range.
C27_Witness ==
    /\ k_pc = "one" /\ k_tol[1] = 1
    /\ k_color = <<255, 255, 255>> /\ k_frame = << <<254, 254, 254>> >>
    /\ k_mask[1] = <<255>>
\* ------------------------------------------------------------ C28
\* The objects of list q whose rank is r, in the order of q.
OfRank(q, r) == LET T(o) == o.rank = r IN SelectSeq(q, T)

\* C28: the list detect_and_classify returns is the concatenation of the
\* per-rank detections stable-sorted by descending rank ordinal: it has the
\* same objects (each as often), the rank ordinals do not increase along it,
\* and the objects of one rank keep the order in which they were detected.
C28_StableSortByRank ==
    c_pc = "done" =>
        /\ Len(c_result) = Len(c_detected)
        /\ \A o \in Range(c_detected) \cup Range(c_result) :
              Cardinality({i \in DOMAIN c_result : c_result[i] = o})
                = Cardinality({i \in DOMAIN c_detected : c_detected[i] = o})
        /\ \A i \in 1 .. (Len(c_result) - 1) :
              RANK_ORDER[c_result[i].rank] >= RANK_ORDER[c_result[i + 1].rank]
        /\ \A r \in Ranks : OfRank(c_result, r) = OfRank(c_detected, r)

\* Two objects of the lowest rank were detected before one of the highest:
\* the highest comes first in the result, the two others keep their order.
C28_Witness ==
    /\ c_pc = "done" /\ Len(c_result) = 3
    /\ c_detected[1].rank = F /\ c_detected[2].rank = F /\ c_detected[3].rank = SS
    /\ c_detected[1].rect # c_detected[2].rect
    /\ c_result = <<c_detected[3], c_detected[1], c_detected[2]>>

\* ------------------------------------------------------------ C29
\* Rectangles i and j of list q are within distance d, edge to edge.
CloseIn(q, d, i, j) ==
    LET gx == Gap(q[i][1], q[i][3], q[j][1], q[j][3])
        gy == Gap(q[i][2], q[i][4], q[j][2], q[j][4])
    IN  gx * gx + gy * gy <= d * d
\* Rectangle i of list q starts a merge group.
RECURSIVE StartsIn(_, _, _)
StartsIn(q, d, i) == \A k \in 1 .. (i - 1) : StartsIn(q, d, k) => ~CloseIn(q, d, k, i)
\* The bounding envelope of the rectangles of list q with indices in G.
EnvelopeIn(q, G) ==
    LET x == MinOf({q[i][1] : i \in G})
        y == MinOf({q[i][2] : i \in G})
    IN  <<x, y, MaxOf({q[i][1] + q[i][3] : i \in G}) - x,
                MaxOf({q[i][2] + q[i][4] : i \in G}) - y>>
\* The number of merge groups of list q.
GroupCount(q, d) == Cardinality({i \in 1 .. Len(q) : StartsIn(q, d, i)})

\* C29: merging is scoped per rank: for each rank the number of objects
\* emitted equals the number of merge groups of that rank's rectangles alone,
\* each object carries its rank's reference color, and its rectangle spans
\* rectangles of its own rank only, also when rectangles of another rank
\* overlap them or lie within the merge tolerance.
C29_MergePerRank ==
    c_pc = "done" =>
        \A n \in 1 .. NumRanks :
            LET mine == OfRank(c_result, RANKS[n].rank) IN
            /\ Len(mine) = GroupCount(c_rects[n], object_tolerance)
            /\ \A k \in 1 .. Len(mine) :
                  /\ mine[k].cv2color = RANKS[n].bgr
                  /\ \E G \in (SUBSET (1 .. Len(c_rects[n]))) \ {{}} :
                        mine[k].rect = EnvelopeIn(c_rects[n], G)

\* The same rectangle was found for two ranks: it is emitted once for each.
C29_Witness ==
    /\ c_pc = "done" /\ Len(c_result) = 2
    /\ c_result[1].rect = c_result[2].rect
    /\ c_result[1].rank # c_result[2].rank
\* ------------------------------------------------------------ C30
\* C30: when update_rank_counts_gui(objs) completes, rank_counts has an
\* entry for every defined rank and no other, each a non-negative integer
\* equal to the number of objects of objs with that rank, the entries sum to
\* len(objs), and last_detected_objs is objs, whatever an earlier call left.
C30_CountsReplaced ==
    [][UpdateRankCountsGui =>
          LET objs == Head(after_queue).objs IN
          /\ DOMAIN rank_counts' = Ranks
          /\ \A r \in Ranks :
                /\ rank_counts'[r] \in Nat
                /\ rank_counts'[r] = Cardinality({i \in DOMAIN objs : objs[i] = r})
          /\ SumOver(rank_counts', Ranks) = Len(objs)
          /\ last_detected_objs' = objs]_vars

\* A call with one object of the lowest and one of the highest rank has
\* completed: both are counted once and the list is cached.
C30_Witness ==
    /\ written_by # "init"
    /\ last_detected_objs = <<SS, F>>
    /\ rank_counts[F] = 1 /\ rank_counts[SS] = 1
    /\ SumOver(rank_counts, Ranks) = 2
\* ------------------------------------------------------------ C31
\* The click of thread t raises in this step.
ClickRaised(t) == rl_pc[t] \in {"click1", "click2"} /\ rl_pc'[t] = "dead"

\* C31 as stated: the step in which a click injection raises in the Sequencer
\* ends the run: after it the running flag is false, the status is Suspended,
\* the CancellationSignal is set and the Poller of the run has been told to
\* stop (or is gone).
C31_InjectionFailureEndsRun ==
    [][\A t \in Threads :
          ClickRaised(t) =>
              /\ ~running'
              /\ status_var' = "Suspended"
              /\ stop_reroll_event'
              /\ \A p \in Threads :
                    IsAlive(ip_pc'[p]) => (ip_stop_event'[p] \/ ip_pc'[p] = "stopping")]_vars
\* ------------------------------------------------------------ C32
\* Lines 829-833 of start_running_async are executed in this step.
PollerStepDone == start_pc = "poller" /\ start_pc' = "seq"

\* C32 as stated: when a successful start_running_async has passed its Poller
\* step, the run has a Detection Poller that is alive, polling, and whose own
\* stop signal is clear, also when the Poller of the previous run had been
\* told to stop and had not yet exited.
C32_StartLeavesPollingPoller ==
    [][(PollerStepDone /\ running') =>
          /\ image_processor_thread' # None
          /\ ip_pc'[image_processor_thread'] \in {"poll", "eval"}
          /\ ~ip_stop_event'[image_processor_thread']]_vars
\* ------------------------------------------------------------ C33
\* Lines 835-838 of start_running_async are executed in this step.
SequencerStepDone == start_pc = "seq" /\ start_pc' = "idle"

\* C33 as stated: when a successful start_running_async returns, the run has
\* a Sequencer inside its click loop, also when the Sequencer of the previous
\* run had left its loop and had not yet ended.
C33_StartLeavesCyclingSequencer ==
    [][(SequencerStepDone /\ running') =>
          /\ reroll_loop_thread' # None
          /\ rl_pc'[reroll_loop_thread'] \notin {"unborn", "dead", "exit"}]_vars
\* ------------------------------------------------------------ C34
\* C34 as stated: once _on_closing has destroyed the root window, no
\* Sequencer issues a click and the operator message is not written again.
C34_NoClickAfterDestroy ==
    [][closing_pc = "closed" =>
          /\ \A t \in Threads : ~ChiselClick(t) /\ ~BuyClick(t)
          /\ message_var' = message_var]_vars
\* ------------------------------------------------------------ C35
\* C35 as stated: at any time at most one preview_loop thread is alive.
C35_AtMostOnePreviewLoop ==
    Cardinality({t \in Threads : IsAlive(pv_pc[t])}) <= 1
\* ------------------------------------------------------------ C36
\* The number of times record r stands in a dump file.
TimesWritten(r) ==
    Cardinality({fi \in {<<f, i>> : f \in DOMAIN log_files, i \in 1 .. MaxRecords} :
                    /\ fi[2] <= Len(log_files[fi[1]])
                    /\ log_files[fi[1]][fi[2]] = r})

\* C36 as stated: every record appended to log_buffer is still in the buffer
\* or stands in exactly one dump file, and no record is written twice.
C36_NoRecordLost ==
    \A r \in 1 .. (log_next - 1) :
        /\ TimesWritten(r) <= 1
        /\ r \in Range(log_buffer) \/ TimesWritten(r) = 1
\* ------------------------------------------------------------ C37
\* C37: for every pixel value and every reference value of a byte the
\* difference taken at line 1016 fits the signed 16-bit type (it lies in
\* -255..255), the value compared with the tolerance is the mathematical
\* |pixel - reference| and, where the two differ, not the residue modulo 256
\* of an unsigned 8-bit subtraction; the mask rank_mask returns is the one
\* the mathematical difference gives.
C37_NoWraparound ==
    \A i \in DOMAIN k_frame :
        LET p == k_frame[i][1]
            r == k_color[1]
            d == IF p >= r THEN p - r ELSE r - p
        IN  /\ p - r \in -255 .. 255
            /\ Int16(p - r) = p - r
            /\ ChannelDiff(p, r) = d
            /\ d # (p - r) % 256 => ChannelDiff(p, r) # (p - r) % 256
            /\ k_pc # "args" => (k_mask[1][i] = MaskOn <=> d <= k_tol[1])

\* The darkest pixel against the brightest reference with tolerance 1: the
\* residue modulo 256 would be 1 and mark the pixel; the mask is 0.
C37_Witness ==
    /\ k_pc = "one" /\ k_tol[1] = 1
    /\ k_color = <<255, 255, 255>> /\ k_frame = << <<0, 255, 255>> >>
    /\ k_mask[1] = <<0>>

====
